---- MODULE Spec2Model ----
(***************************************************************************)
(* A model of the RxnWeaver molecule package (src/data/molecule): rings,   *)
(* atoms, the atom and bond builders and the molecule id counter.          *)
(*                                                                         *)
(* Every data structure of the package is a record whose fields carry the  *)
(* names of the Go struct fields.  Every method is an operator that takes  *)
(* the receiver and answers the receiver after the call together with the  *)
(* error flag.  Bit sets are sets of naturals.  A nil pointer is Nil.      *)
(***************************************************************************)
EXTENDS Integers, Sequences, FiniteSets, TLC

VARIABLES
    mol,      \* the molecule: atoms, bonds, nextAtomIid, nextBondId
    ring,     \* the ring under construction (_Ring)
    atom,     \* the atom whose bonds are edited (_Atom)
    ab,       \* AtomBuilder.a : the atom being built, or Nil
    bb,       \* BondBuilder.b : the bond being built, or Nil
    nextMolId,\* nextMolIdHolder: mu (holder or 0) and nextId
    procs,    \* the goroutines calling molecule.New()
    issued,   \* ids returned by nextMoleculeId, in order of mutex acquisition
    normalisedOpen, \* history: normalise has rotated the ring before complete
    lastOp,   \* the most recent call: name, arguments, error flag
    nops,     \* number of calls made so far (bounds the behaviours)
    todo,     \* ring perception: the calls still to be made, in order
    aroDone   \* ids of the ring systems determineAromaticity has run on

vars ==
    <<mol, ring, atom, ab, bb, nextMolId, procs, issued, normalisedOpen, lastOp, nops,
      todo, aroDone>>

Nil == [nil |-> TRUE]

\* Width of the Go integer types used by the package.
Uint8Mod == 256
Uint16Mod == 65536
MaxUint16 == 65535

uint8(n) == n % Uint8Mod
uint16(n) == n % Uint16Mod

\* common.BondType
BondTypeNone == 0
BondTypeSingle == 1
BondTypeDouble == 2
BondTypeTriple == 3
BondTypeAltern == 4

\* common.Radical
RadicalNone == 0
RadicalDoublet == 2

\* common.Unsaturation.  The enumeration is not part of the sources read; its
\* members are the names atom.go uses, and None is the value of a new atom.
UnsaturationNone == "None"
UnsaturationCharged == "Charged"
UnsaturationDoubleBondC == "DoubleBondC"
UnsaturationDoubleBondW == "DoubleBondW"
UnsaturationDoubleBondCC == "DoubleBondCC"
UnsaturationDoubleBondCW == "DoubleBondCW"
UnsaturationDoubleBondWW == "DoubleBondWW"
UnsaturationTripleBondC == "TripleBondC"
UnsaturationTripleBondW == "TripleBondW"

\* common.MaxRings: the capacity of a ring system's ring list
MaxRings == 10

\* A call: its name, its arguments (sym, x, y), whether it answered an error,
\* and whether it answered a nil builder with that error.
Op(name, sym, x, y, err, fatal) ==
    [op |-> name, sym |-> sym, x |-> x, y |-> y, err |-> err, fatal |-> fatal]

NoOp == Op("none", "", 0, 0, FALSE, FALSE)

Range(s) == {s[i] : i \in DOMAIN s}

NoDup(s) == \A i, j \in DOMAIN s : s[i] = s[j] => i = j

(***************************************************************************)
(* Elements.  The element table itself is not part of the sources read;    *)
(* it maps a symbol to its atomic number and leaves unknown symbols out.   *)
(***************************************************************************)
PeriodicTable ==
    [sym \in {"H", "C", "N", "O"} |->
        CASE sym = "H" -> 1 [] sym = "C" -> 6 [] sym = "N" -> 7 [] sym = "O" -> 8]

(***************************************************************************)
(* Atoms and bonds.                                                        *)
(***************************************************************************)
\* newAtom: every field not named is the Go zero value.
newAtom(atNum, iId) ==
    [atNum |-> atNum, iId |-> uint16(iId), nId |-> 0,
     hCount |-> 0, charge |-> 0, radical |-> RadicalNone,
     bonds |-> {}, nbrs |-> <<>>,
     singleBondCount |-> 0, doubleBondCount |-> 0, tripleBondCount |-> 0,
     unsaturation |-> UnsaturationNone, isInAroRing |-> FALSE,
     rings |-> {}]

\* newBond with the atoms and the order already set.
newBond(id, a1, a2, bType) ==
    [id |-> id, a1 |-> a1, a2 |-> a2, bType |-> bType,
     rings |-> <<>>, isAro |-> FALSE]

\* Molecule.atomWithIid: the first atom of the list with the input id.
atomIndexWithIid(m, id) ==
    IF \E i \in DOMAIN m.atoms : m.atoms[i].iId = id
    THEN CHOOSE i \in DOMAIN m.atoms :
            /\ m.atoms[i].iId = id
            /\ \A j \in DOMAIN m.atoms : m.atoms[j].iId = id => i <= j
    ELSE 0

atomWithIid(m, id) ==
    IF atomIndexWithIid(m, id) = 0 THEN Nil ELSE m.atoms[atomIndexWithIid(m, id)]

\* Molecule.bondWithId
bondWithId(m, id) ==
    IF \E i \in DOMAIN m.bonds : m.bonds[i].id = id
    THEN m.bonds[CHOOSE i \in DOMAIN m.bonds :
            /\ m.bonds[i].id = id
            /\ \A j \in DOMAIN m.bonds : m.bonds[j].id = id => i <= j]
    ELSE Nil

\* Molecule.bondBetween: the first bond of the list that joins the two atoms,
\* in either direction.
bondJoins(b, a1id, a2id) ==
    \/ b.a1 = a1id /\ b.a2 = a2id
    \/ b.a2 = a1id /\ b.a1 = a2id

bondBetween(m, a1id, a2id) ==
    IF \E i \in DOMAIN m.bonds : bondJoins(m.bonds[i], a1id, a2id)
    THEN m.bonds[CHOOSE i \in DOMAIN m.bonds :
            /\ bondJoins(m.bonds[i], a1id, a2id)
            /\ \A j \in DOMAIN m.bonds : bondJoins(m.bonds[j], a1id, a2id) => i <= j]
    ELSE Nil

\* _Bond.otherAtomIid
otherAtomIid(b, aid) ==
    IF b.a1 = aid THEN b.a2
    ELSE IF b.a2 = aid THEN b.a1
    ELSE 0

\* molecule.New without the id: empty lists, running numbers at 1.
EmptyMolecule ==
    [atoms |-> <<>>, bonds |-> <<>>, rings |-> <<>>, ringSystems |-> <<>>,
     nextAtomIid |-> 1, nextBondId |-> 1]

(***************************************************************************)
(* Molecules the ring and atom operations run on.  Atoms are carbons with  *)
(* input ids 1..n; nids gives each atom's normalised id.                   *)
(***************************************************************************)
MkMolecule(nids, ends) ==
    [atoms |-> [i \in DOMAIN nids |-> [newAtom(6, i) EXCEPT !.nId = nids[i]]],
     bonds |-> [i \in DOMAIN ends |-> newBond(i, ends[i][1], ends[i][2], ends[i][3])],
     rings |-> <<>>, ringSystems |-> <<>>,
     nextAtomIid |-> Len(nids) + 1,
     nextBondId |-> Len(ends) + 1]

\* cyclobutene, methylcyclopropene, bicyclobutane, but-1-en-3-yne (no ring)
Skeletons ==
    { << <<1, 2, 2>>, <<2, 3, 1>>, <<3, 4, 1>>, <<4, 1, 1>> >>,
      << <<1, 2, 1>>, <<2, 3, 2>>, <<3, 1, 1>>, <<1, 4, 1>> >>,
      << <<1, 2, 1>>, <<2, 3, 1>>, <<3, 4, 1>>, <<4, 1, 1>>, <<1, 3, 1>> >>,
      << <<1, 2, 2>>, <<2, 3, 1>>, <<3, 4, 3>> >> }

Numberings ==
    { <<1, 2, 3, 4>>, <<3, 1, 4, 2>>, <<4, 3, 2, 1>> }

Molecules ==
    {MkMolecule(nids, ends) : nids \in Numberings, ends \in Skeletons}

\* Input ids a caller may pass: those of the molecule and one that is unknown.
AtomIdInputs(m) == 1 .. (Len(m.atoms) + 1)

(***************************************************************************)
(* Rings (ring.go).                                                        *)
(***************************************************************************)
\* newRing
newRing(id) ==
    [id |-> id,
     atoms |-> <<>>, bonds |-> <<>>, atomBitSet |-> {}, bondBitSet |-> {},
     isAro |-> FALSE, isHetAro |-> FALSE, isComplete |-> FALSE]

\* _Ring.size
size(r) == Len(r.atoms)

\* _Ring.hasAtom, _Ring.hasBond: tests of the bit sets
hasAtom(r, aid) == aid \in r.atomBitSet

hasBond(r, bid) == bid \in r.bondBitSet

\* _Ring.addAtom.  The first atom is appended without setting its bit.
Ring_addAtom(m, r, aid) ==
    IF r.isComplete THEN [r |-> r, err |-> TRUE]
    ELSE IF hasAtom(r, aid) THEN [r |-> r, err |-> FALSE]
    ELSE IF Len(r.atoms) = 0
         THEN [r |-> [r EXCEPT !.atoms = Append(@, aid)], err |-> FALSE]
    ELSE LET prev == r.atoms[Len(r.atoms)]
             b == bondBetween(m, prev, aid)
         IN  IF b = Nil THEN [r |-> r, err |-> TRUE]
             ELSE [r |-> [r EXCEPT !.bonds = Append(@, b.id),
                                   !.atoms = Append(@, aid),
                                   !.bondBitSet = @ \cup {b.id},
                                   !.atomBitSet = @ \cup {aid}],
                   err |-> FALSE]

\* _Ring.complete.  The closing bond is appended without setting its bit.
Ring_complete_SizeOne(m, r) ==
    IF r.isComplete THEN [r |-> r, err |-> FALSE]
    ELSE IF Len(r.atoms) < 1 THEN [r |-> r, err |-> TRUE]
    ELSE LET b == bondBetween(m, r.atoms[1], r.atoms[Len(r.atoms)])
         IN  IF b = Nil THEN [r |-> r, err |-> TRUE]
             ELSE [r |-> [r EXCEPT !.bonds = Append(@, b.id),
                                   !.isComplete = TRUE],
                   err |-> FALSE]

Ring_complete(m, r) ==
    IF r.isComplete THEN [r |-> r, err |-> FALSE]
    ELSE IF Len(r.atoms) < 3 THEN [r |-> r, err |-> TRUE]
    ELSE LET b == bondBetween(m, r.atoms[1], r.atoms[Len(r.atoms)])
         IN  IF b = Nil THEN [r |-> r, err |-> TRUE]
             ELSE [r |-> [r EXCEPT !.bonds = Append(@, b.id),
                                   !.isComplete = TRUE],
                   err |-> FALSE]

\* A scan that settles for the head of the list.
minNidIndex_Head(nids) == 1

\* The index (1-based) at which normalise finds the smallest normalised id:
\* the scan keeps the first position whose id is below every earlier one.
minNidIndex(nids) ==
    CHOOSE i \in DOMAIN nids :
        /\ \A j \in DOMAIN nids : nids[i] <= nids[j]
        /\ \A j \in DOMAIN nids : nids[j] = nids[i] => i <= j

\* append(s[idx:], s[:idx]...) with idx counted from 1 here
rotate(s, idx) ==
    [i \in 1 .. Len(s) |-> s[((i + idx - 2) % Len(s)) + 1]]

\* idx of normalise (0-based, as in the code); 0 for the empty ring
normaliseIdx(m, r) ==
    IF Len(r.atoms) = 0 THEN 0
    ELSE minNidIndex([i \in DOMAIN r.atoms |-> atomWithIid(m, r.atoms[i]).nId]) - 1

\* _Ring.normalise: rotates the atom list; the bond list is left as it is.
Ring_normalise(m, r) ==
    IF Len(r.atoms) = 0 THEN [r |-> r, err |-> TRUE]
    ELSE LET nids == [i \in DOMAIN r.atoms |-> atomWithIid(m, r.atoms[i]).nId]
         IN  [r |-> [r EXCEPT !.atoms = rotate(r.atoms, minNidIndex(nids))],
              err |-> FALSE]

\* normalise dereferences every atom of the ring: an id unknown to the
\* molecule is a nil dereference, and the call panics.  When no normalised id
\* is below MaxUint16 the scan leaves idx at -1 and the slice expression panics.
normalisePanics(m, r) ==
    \/ \E i \in DOMAIN r.atoms : atomWithIid(m, r.atoms[i]) = Nil
    \/ /\ Len(r.atoms) > 0
       /\ \A i \in DOMAIN r.atoms : atomWithIid(m, r.atoms[i]).nId = MaxUint16

(***************************************************************************)
(* Atom bond bookkeeping (atom.go).                                        *)
(***************************************************************************)
\* n copies of x appended to s
appendTimes(s, x, n) == s \o [i \in 1 .. n |-> x]

\* _Atom.addBond
Atom_addBond(a, b) ==
    IF b.id \in a.bonds THEN a
    ELSE LET nbrId == otherAtomIid(b, a.iId)
             n == b.bType
         IN  [a EXCEPT !.bonds = @ \cup {b.id},
                       !.nbrs = appendTimes(@, nbrId, n),
                       !.singleBondCount = IF n = 1 THEN uint8(@ + 1) ELSE @,
                       !.doubleBondCount = IF n = 2 THEN uint8(@ + 1) ELSE @,
                       !.tripleBondCount = IF n = 3 THEN uint8(@ + 1) ELSE @]

\* _Atom.removeBond: the counters and the neighbour list are adjusted
\* whether or not the bond is in the atom's bond set.
Atom_removeBond(a, b) ==
    LET nbrId == otherAtomIid(b, a.iId)
        keep(nid) == nid # nbrId
    IN  [a EXCEPT !.singleBondCount = IF b.bType = 1 THEN uint8(@ - 1) ELSE @,
                  !.doubleBondCount = IF b.bType = 2 THEN uint8(@ - 1) ELSE @,
                  !.tripleBondCount = IF b.bType = 3 THEN uint8(@ - 1) ELSE @,
                  !.nbrs = SelectSeq(@, keep),
                  !.bonds = @ \ {b.id}]

(***************************************************************************)
(* Values of the variables a specification does not use.                   *)
(***************************************************************************)
IdleMolId ==
    /\ nextMolId = [mu |-> 0, nextId |-> 0]
    /\ procs = <<>>
    /\ issued = <<>>

IdleBuilders ==
    /\ ab = Nil
    /\ bb = Nil

IdleAromaticity ==
    /\ todo = <<>>
    /\ aroDone = {}

(***************************************************************************)
(* Specification SpecRing: one ring is built, closed and normalised over   *)
(* a molecule whose atoms and bonds are in place.                          *)
(***************************************************************************)
InitRing ==
    /\ mol \in Molecules
    /\ ring = newRing(1)
    /\ atom = Nil
    /\ IdleBuilders
    /\ IdleMolId
    /\ IdleAromaticity
    /\ normalisedOpen = FALSE
    /\ lastOp = NoOp
    /\ nops = 0

RingAddAtom ==
    \E aid \in AtomIdInputs(mol) :
        LET res == Ring_addAtom(mol, ring, aid)
        IN  /\ ring' = res.r
            /\ lastOp' = Op("addAtom", "", aid, 0, res.err, FALSE)
            /\ UNCHANGED <<mol, atom, ab, bb, nextMolId, procs, issued, normalisedOpen, nops, todo, aroDone>>

RingComplete ==
    LET res == Ring_complete(mol, ring)
    IN  /\ ring' = res.r
        /\ lastOp' = Op("complete", "", 0, 0, res.err, FALSE)
        /\ UNCHANGED <<mol, atom, ab, bb, nextMolId, procs, issued, normalisedOpen, nops, todo, aroDone>>

RingNormalise ==
    /\ ~normalisePanics(mol, ring)
    /\ LET res == Ring_normalise(mol, ring)
       IN  /\ ring' = res.r
           /\ lastOp' = Op("normalise", "", normaliseIdx(mol, ring), 0, res.err, FALSE)
           /\ normalisedOpen' =
                (normalisedOpen \/ (~ring.isComplete /\ res.r.atoms # ring.atoms))
    /\ UNCHANGED <<mol, atom, ab, bb, nextMolId, procs, issued, nops, todo, aroDone>>

NextRing ==
    \/ RingAddAtom
    \/ RingComplete
    \/ RingNormalise

SpecRing == InitRing /\ [][NextRing]_vars

(***************************************************************************)
(* Specification SpecAtom: bonds of the molecule are added to and removed  *)
(* from one of its atoms.                                                  *)
(***************************************************************************)
MaxAtomOps == 5

InitAtom ==
    /\ mol \in Molecules
    /\ atom \in Range(mol.atoms)
    /\ ring = newRing(1)
    /\ IdleBuilders
    /\ IdleMolId
    /\ IdleAromaticity
    /\ normalisedOpen = FALSE
    /\ lastOp = NoOp
    /\ nops = 0

AtomAddBond ==
    /\ nops < MaxAtomOps
    /\ \E b \in Range(mol.bonds) :
        /\ atom' = Atom_addBond(atom, b)
        /\ lastOp' = Op("addBond", "", b.id, 0, FALSE, FALSE)
    /\ nops' = nops + 1
    /\ UNCHANGED <<mol, ring, ab, bb, nextMolId, procs, issued, normalisedOpen, todo, aroDone>>

AtomRemoveBond ==
    /\ nops < MaxAtomOps
    /\ \E b \in Range(mol.bonds) :
        /\ atom' = Atom_removeBond(atom, b)
        /\ lastOp' = Op("removeBond", "", b.id, 0, FALSE, FALSE)
    /\ nops' = nops + 1
    /\ UNCHANGED <<mol, ring, ab, bb, nextMolId, procs, issued, normalisedOpen, todo, aroDone>>

NextAtom ==
    \/ AtomAddBond
    \/ AtomRemoveBond

SpecAtom == InitAtom /\ [][NextAtom]_vars

(***************************************************************************)
(* The builders (atom_builder.go, bond_builder.go).                        *)
(***************************************************************************)
\* AtomBuilder.New: a is the builder's atom before the call.
AtomBuilder_New(m, a, sym, iId) ==
    IF uint16(iId) # m.nextAtomIid
    THEN [a |-> a, err |-> TRUE, fatal |-> TRUE]
    ELSE IF sym \notin DOMAIN PeriodicTable
    THEN [a |-> a, err |-> TRUE, fatal |-> TRUE]
    ELSE [a |-> newAtom(PeriodicTable[sym], iId), err |-> FALSE, fatal |-> FALSE]

\* AtomBuilder.Charge: code 4 sets the radical and leaves the charge alone.
AtomBuilder_Charge(a, ch) ==
    CASE ch = 1 -> [a EXCEPT !.charge = 3]
      [] ch = 2 -> [a EXCEPT !.charge = 2]
      [] ch = 3 -> [a EXCEPT !.charge = 1]
      [] ch = 4 -> [a EXCEPT !.radical = RadicalDoublet]
      [] ch = 5 -> [a EXCEPT !.charge = -1]
      [] ch = 6 -> [a EXCEPT !.charge = -2]
      [] ch = 7 -> [a EXCEPT !.charge = -3]
      [] OTHER  -> [a EXCEPT !.charge = 0]

\* The molecule takes the built atom: it joins the atom list and the running
\* input id moves on.  (This step is not in the sources read; the input ids
\* are dense and 1-based in the order the atoms were added.)
Molecule_addAtom(m, a) ==
    [m EXCEPT !.atoms = Append(@, a), !.nextAtomIid = uint16(@ + 1)]

\* BondBuilder.New
BondBuilder_New(m, b, id) ==
    IF uint16(id) # m.nextBondId
    THEN [b |-> b, err |-> TRUE, fatal |-> TRUE]
    ELSE [b |-> newBond(uint16(id), 0, 0, BondTypeNone), err |-> FALSE, fatal |-> FALSE]

\* a.hCount++ on the atom at index i of the molecule's list
incHCount(m, i) ==
    [m EXCEPT !.atoms[i].hCount = uint8(@ + 1)]

\* BondBuilder.Atoms: a hydrogen at either end drops the bond and counts the
\* hydrogen on the atom at the other end.
BondBuilder_Atoms(m, b, aiid1, aiid2) ==
    LET i1 == atomIndexWithIid(m, uint16(aiid1))
        i2 == atomIndexWithIid(m, uint16(aiid2))
    IN  IF i1 = 0 THEN [m |-> m, b |-> b, err |-> TRUE, fatal |-> TRUE]
        ELSE IF i2 = 0 THEN [m |-> m, b |-> b, err |-> TRUE, fatal |-> TRUE]
        ELSE IF m.atoms[i1].atNum = 1
        THEN [m |-> incHCount(m, i2), b |-> Nil, err |-> TRUE, fatal |-> FALSE]
        ELSE IF m.atoms[i2].atNum = 1
        THEN [m |-> incHCount(m, i1), b |-> Nil, err |-> TRUE, fatal |-> FALSE]
        ELSE [m |-> m,
              b |-> [b EXCEPT !.a1 = uint16(aiid1), !.a2 = uint16(aiid2)],
              err |-> FALSE, fatal |-> FALSE]

\* Atoms writes through bb.b only when both atoms are found and neither is a
\* hydrogen: with no bond in the builder that write is a nil dereference.
BondBuilder_AtomsPanics(m, b, aiid1, aiid2) ==
    LET i1 == atomIndexWithIid(m, uint16(aiid1))
        i2 == atomIndexWithIid(m, uint16(aiid2))
    IN  /\ b = Nil
        /\ i1 # 0
        /\ i2 # 0
        /\ m.atoms[i1].atNum # 1
        /\ m.atoms[i2].atNum # 1

\* BondBuilder.BondType: bType is a uint8; none and alternating are refused.
BondBuilder_BondType(b, bType) ==
    IF bType = BondTypeNone \/ bType = BondTypeAltern
    THEN [b |-> b, err |-> TRUE, fatal |-> TRUE]
    ELSE [b |-> [b EXCEPT !.bType = bType], err |-> FALSE, fatal |-> FALSE]

(***************************************************************************)
(* Specification SpecBuilder: a molecule is populated through the atom     *)
(* builder, and bonds are described to the bond builder.                   *)
(***************************************************************************)
MaxBuilderOps == 6

Symbols == {"C", "H", "Xx"}

\* An input id as the caller's int: the 16-bit value v, or v with bit 16 set,
\* or v less 2^16.
IntsFor(vs) == {v + w * Uint16Mod : v \in vs, w \in {-1, 0, 1}}

ChargeCodes == 0 .. 8

BondTypeInputs == (BondTypeNone .. (BondTypeAltern + 1)) \cup {Uint8Mod - 1}

InitBuilder ==
    /\ mol = EmptyMolecule
    /\ ab = Nil
    /\ bb = Nil
    /\ ring = newRing(1)
    /\ atom = Nil
    /\ IdleMolId
    /\ IdleAromaticity
    /\ normalisedOpen = FALSE
    /\ lastOp = NoOp
    /\ nops = 0

ABNew ==
    /\ nops < MaxBuilderOps
    /\ \E sym \in Symbols, iId \in IntsFor({mol.nextAtomIid, mol.nextAtomIid + 1}) :
        LET res == AtomBuilder_New(mol, ab, sym, iId)
        IN  /\ ab' = res.a
            /\ lastOp' = Op("AtomBuilder.New", sym, iId, 0, res.err, res.fatal)
    /\ nops' = nops + 1
    /\ UNCHANGED <<mol, bb, ring, atom, nextMolId, procs, issued, normalisedOpen, todo, aroDone>>

\* Charge on a builder that holds no atom is a nil dereference.
ABCharge ==
    /\ nops < MaxBuilderOps
    /\ ab # Nil
    /\ \E ch \in ChargeCodes :
        /\ ab' = AtomBuilder_Charge(ab, ch)
        /\ lastOp' = Op("AtomBuilder.Charge", "", ch, 0, FALSE, FALSE)
    /\ nops' = nops + 1
    /\ UNCHANGED <<mol, bb, ring, atom, nextMolId, procs, issued, normalisedOpen, todo, aroDone>>

MolAddAtom ==
    /\ nops < MaxBuilderOps
    /\ ab # Nil
    /\ ab.iId = mol.nextAtomIid
    /\ mol' = Molecule_addAtom(mol, ab)
    /\ lastOp' = Op("Molecule.addAtom", "", ab.iId, 0, FALSE, FALSE)
    /\ nops' = nops + 1
    /\ UNCHANGED <<ab, bb, ring, atom, nextMolId, procs, issued, normalisedOpen, todo, aroDone>>

BBNew ==
    /\ nops < MaxBuilderOps
    /\ \E id \in IntsFor({mol.nextBondId, mol.nextBondId + 1}) :
        LET res == BondBuilder_New(mol, bb, id)
        IN  /\ bb' = res.b
            /\ lastOp' = Op("BondBuilder.New", "", id, 0, res.err, res.fatal)
    /\ nops' = nops + 1
    /\ UNCHANGED <<mol, ab, ring, atom, nextMolId, procs, issued, normalisedOpen, todo, aroDone>>

BBAtoms ==
    /\ nops < MaxBuilderOps
    /\ \E aiid1, aiid2 \in 0 .. (Len(mol.atoms) + 1) :
        /\ ~BondBuilder_AtomsPanics(mol, bb, aiid1, aiid2)
        /\ LET res == BondBuilder_Atoms(mol, bb, aiid1, aiid2)
           IN  /\ mol' = res.m
               /\ bb' = res.b
               /\ lastOp' = Op("BondBuilder.Atoms", "", aiid1, aiid2, res.err, res.fatal)
    /\ nops' = nops + 1
    /\ UNCHANGED <<ab, ring, atom, nextMolId, procs, issued, normalisedOpen, todo, aroDone>>

\* BondType on a builder that holds no bond is a nil dereference, unless the
\* order is refused first.
BBBondType ==
    /\ nops < MaxBuilderOps
    /\ \E bType \in BondTypeInputs :
        /\ bb # Nil \/ BondBuilder_BondType(bb, bType).err
        /\ LET res == BondBuilder_BondType(bb, bType)
           IN  /\ bb' = res.b
               /\ lastOp' = Op("BondBuilder.BondType", "", bType, 0, res.err, res.fatal)
    /\ nops' = nops + 1
    /\ UNCHANGED <<mol, ab, ring, atom, nextMolId, procs, issued, normalisedOpen, todo, aroDone>>

NextBuilder ==
    \/ ABNew
    \/ ABCharge
    \/ MolAddAtom
    \/ BBNew
    \/ BBAtoms
    \/ BBBondType

SpecBuilder == InitBuilder /\ [][NextBuilder]_vars

(***************************************************************************)
(* The molecule id counter (molecule.go).  NProcs goroutines call          *)
(* molecule.New(), each up to MaxCalls times.  nextMoleculeId is           *)
(*     mu.Lock(); defer mu.Unlock(); nextId++; return nextId               *)
(* and nextId++ is a load followed by a store.                             *)
(***************************************************************************)
NProcs == 2

MaxCalls == 3

Procs == 1 .. NProcs

\* sync.Mutex.Lock returns only when no goroutine holds the mutex.
canLock_Always(h) == TRUE

canLock(h) == h.mu = 0

InitMolId ==
    /\ nextMolId = [mu |-> 0, nextId |-> 0]
    /\ procs = [p \in Procs |-> [pc |-> "idle", tmp |-> 0, slot |-> 0, calls |-> 0]]
    /\ issued = <<>>
    /\ mol = EmptyMolecule
    /\ ring = newRing(1)
    /\ atom = Nil
    /\ IdleBuilders
    /\ IdleAromaticity
    /\ normalisedOpen = FALSE
    /\ lastOp = NoOp
    /\ nops = 0

\* mu.Lock(): the caller takes the next place in the order of acquisition.
Lock(p) ==
    /\ procs[p].pc = "idle"
    /\ procs[p].calls < MaxCalls
    /\ canLock(nextMolId)
    /\ nextMolId' = [nextMolId EXCEPT !.mu = p]
    /\ issued' = Append(issued, [proc |-> p, id |-> 0])
    /\ procs' = [procs EXCEPT ![p].pc = "load", ![p].slot = Len(issued) + 1]
    /\ UNCHANGED <<mol, ring, atom, ab, bb, normalisedOpen, lastOp, nops, todo, aroDone>>

\* nextId++ : the load
Load(p) ==
    /\ procs[p].pc = "load"
    /\ procs' = [procs EXCEPT ![p].pc = "store", ![p].tmp = nextMolId.nextId]
    /\ UNCHANGED <<nextMolId, issued, mol, ring, atom, ab, bb, normalisedOpen, lastOp, nops, todo, aroDone>>

\* nextId++ : the store
Store(p) ==
    /\ procs[p].pc = "store"
    /\ nextMolId' = [nextMolId EXCEPT !.nextId = procs[p].tmp + 1]
    /\ procs' = [procs EXCEPT ![p].pc = "return"]
    /\ UNCHANGED <<issued, mol, ring, atom, ab, bb, normalisedOpen, lastOp, nops, todo, aroDone>>

\* return nextId : the value the molecule gets as its id
Return(p) ==
    /\ procs[p].pc = "return"
    /\ issued' = [issued EXCEPT ![procs[p].slot].id = nextMolId.nextId]
    /\ procs' = [procs EXCEPT ![p].pc = "unlock"]
    /\ UNCHANGED <<nextMolId, mol, ring, atom, ab, bb, normalisedOpen, lastOp, nops, todo, aroDone>>

\* the deferred mu.Unlock()
Unlock(p) ==
    /\ procs[p].pc = "unlock"
    /\ nextMolId' = [nextMolId EXCEPT !.mu = 0]
    /\ procs' = [procs EXCEPT ![p].pc = "idle", ![p].calls = @ + 1]
    /\ UNCHANGED <<issued, mol, ring, atom, ab, bb, normalisedOpen, lastOp, nops, todo, aroDone>>

NextMolId ==
    \E p \in Procs :
        \/ Lock(p)
        \/ Load(p)
        \/ Store(p)
        \/ Return(p)
        \/ Unlock(p)

SpecMolId == InitMolId /\ [][NextMolId]_vars

(***************************************************************************)
(* Ring systems (ring_system.go).                                          *)
(***************************************************************************)
\* newRingSystem
newRingSystem(id) ==
    [id |-> id, rings |-> <<>>, atomBitSet |-> {}, bondBitSet |-> {},
     isAro |-> FALSE]

\* Molecule.ringWithId: the first ring of the list with the id
ringWithId(m, id) ==
    IF \E i \in DOMAIN m.rings : m.rings[i].id = id
    THEN m.rings[CHOOSE i \in DOMAIN m.rings :
            /\ m.rings[i].id = id
            /\ \A j \in DOMAIN m.rings : m.rings[j].id = id => i <= j]
    ELSE Nil

\* The three slice statements of addRingAt, idx counted from 0:
\*     t := rs.rings[idx:]
\*     rs.rings = append(rs.rings[:idx], r.id)
\*     rs.rings = append(rs.rings, t...)
\* The list is made with capacity MaxRings, so the first append writes r.id
\* into the array cell that t[0] names, and the second append copies t as it
\* is by then.  At idx = len the tail is empty.  (When the list is full the
\* second append moves to a new array, after the cell was overwritten.)
insertRingId(rings, idx, rid) ==
    IF idx = Len(rings) THEN Append(rings, rid)
    ELSE SubSeq(rings, 1, idx) \o <<rid, rid>> \o SubSeq(rings, idx + 2, Len(rings))

\* the ring shares no bond and no atom with a system that has bonds
noneInCommon(rs, r) ==
    /\ Cardinality(rs.bondBitSet) > 0
    /\ rs.bondBitSet \cap r.bondBitSet = {}
    /\ rs.atomBitSet \cap r.atomBitSet = {}

\* An addRingAt that inserts whether or not the ring is already a member.
RingSystem_addRingAt_NoMemberTest(rs, idx, r) ==
    IF noneInCommon(rs, r) THEN [rs |-> rs, err |-> TRUE]
    ELSE [rs |-> [rs EXCEPT !.rings = insertRingId(@, idx, r.id),
                            !.atomBitSet = @ \cup r.atomBitSet,
                            !.bondBitSet = @ \cup r.bondBitSet],
          err |-> FALSE]

\* _RingSystem.addRingAt
RingSystem_addRingAt(rs, idx, r) ==
    IF r.id \in Range(rs.rings) THEN [rs |-> rs, err |-> FALSE]
    ELSE IF noneInCommon(rs, r) THEN [rs |-> rs, err |-> TRUE]
    ELSE [rs |-> [rs EXCEPT !.rings = insertRingId(@, idx, r.id),
                            !.atomBitSet = @ \cup r.atomBitSet,
                            !.bondBitSet = @ \cup r.bondBitSet],
          err |-> FALSE]

\* addRingAt makes no boundary check: a slice expression with idx below 0 or
\* above the length panics, once the membership and overlap tests are passed.
RingSystem_addRingAtPanics(rs, idx, r) ==
    /\ r.id \notin Range(rs.rings)
    /\ ~noneInCommon(rs, r)
    /\ (idx < 0 \/ idx > Len(rs.rings))

\* _RingSystem.addRing
RingSystem_addRing(rs, r) == RingSystem_addRingAt(rs, Len(rs.rings), r)

\* _RingSystem.removeRingAt, idx counted from 0: the bit sets are rebuilt from
\* the rings that remain.
RingSystem_removeRingAt(m, rs, idx) ==
    LET rest == SubSeq(rs.rings, 1, idx) \o SubSeq(rs.rings, idx + 2, Len(rs.rings))
    IN  [rs |-> [rs EXCEPT
                    !.rings = rest,
                    !.atomBitSet = UNION {ringWithId(m, rest[i]).atomBitSet : i \in DOMAIN rest},
                    !.bondBitSet = UNION {ringWithId(m, rest[i]).bondBitSet : i \in DOMAIN rest}],
         err |-> FALSE]

\* rs.rings[idx+1:] panics unless 0 <= idx < len
RingSystem_removeRingAtPanics(rs, idx) ==
    idx < 0 \/ idx >= Len(rs.rings)

\* _RingSystem.removeRing: the first position of the ring's id, if any
RingSystem_removeRing(m, rs, r) ==
    IF r.id \notin Range(rs.rings) THEN [rs |-> rs, err |-> FALSE]
    ELSE RingSystem_removeRingAt(m, rs,
            (CHOOSE i \in DOMAIN rs.rings :
                /\ rs.rings[i] = r.id
                /\ \A j \in DOMAIN rs.rings : rs.rings[j] = r.id => i <= j) - 1)

(***************************************************************************)
(* Unsaturation and pi electrons of an atom (atom.go).                     *)
(***************************************************************************)
\* the bonds of the atom's bond set, in the order NextSet visits them
RECURSIVE bondsAscending(_, _)
bondsAscending(m, bids) ==
    IF bids = {} THEN <<>>
    ELSE LET lo == CHOOSE b \in bids : \A c \in bids : b <= c
         IN  <<bondWithId(m, lo)>> \o bondsAscending(m, bids \ {lo})

isDouble(b) == b.bType = BondTypeDouble

isTriple(b) == b.bType = BondTypeTriple

\* _Bond.isCyclic
Bond_isCyclic(b) == Len(b.rings) > 0

\* _Bond.addRing
Bond_addRing(b, rid) ==
    IF rid \in Range(b.rings) THEN b ELSE [b EXCEPT !.rings = Append(@, rid)]

\* _Atom.addRing
Atom_addRing(a, rid) == [a EXCEPT !.rings = @ \cup {rid}]

\* _Atom.isCyclic
Atom_isCyclic(a) == a.rings # {}

\* _Atom.isInHeteroAromaticRing
Atom_isInHeteroAromaticRing(m, a) ==
    \/ a.isInAroRing /\ a.atNum # 6
    \/ \E rid \in a.rings : ringWithId(m, rid).isHetAro

\* common.IsValidOxidationState is not part of the sources read: the element
\* table permits an oxidation state up to the element's usual valence.
IsValidOxidationState(atNum, os) ==
    os <= (CASE atNum = 1 -> 1 [] atNum = 5 -> 3 [] atNum = 6 -> 4
             [] atNum = 7 -> 5 [] atNum = 8 -> 2 [] atNum = 14 -> 4
             [] atNum = 16 -> 6 [] OTHER -> 8)

\* _Atom.determineUnsaturation
Atom_determineUnsaturation(m, a) ==
    LET nb == Cardinality(a.bonds)
        nn == Len(a.nbrs)
        bs == bondsAscending(m, a.bonds)
        hetero(b) == atomWithIid(m, otherAtomIid(b, a.iId)).atNum # 6
        heteroDouble(b) == isDouble(b) /\ hetero(b)
        heteroTriple(b) == isTriple(b) /\ hetero(b)
        ndb == Len(SelectSeq(bs, isDouble))
        nhdb == Len(SelectSeq(bs, heteroDouble))
        ntb == Len(SelectSeq(bs, isTriple))
        nhtb == Len(SelectSeq(bs, heteroTriple))
        set(u) == [a |-> [a EXCEPT !.unsaturation = u], err |-> FALSE, assigned |-> TRUE]
    IN  IF a.charge # 0 THEN set(UnsaturationCharged)
        ELSE IF a.hCount > 0 /\ ~IsValidOxidationState(a.atNum, nn + a.hCount)
        THEN [a |-> a, err |-> TRUE, assigned |-> FALSE]
        ELSE IF nb = nn THEN set(UnsaturationNone)
        ELSE IF ntb > 0
        THEN (IF nhtb > 0 THEN set(UnsaturationTripleBondW)
              ELSE set(UnsaturationTripleBondC))
        ELSE IF ndb = 1 /\ nhdb = 0 THEN set(UnsaturationDoubleBondC)
        ELSE IF ndb = 1 /\ nhdb = 1 THEN set(UnsaturationDoubleBondW)
        ELSE IF ndb = 2 /\ nhdb = 0 THEN set(UnsaturationDoubleBondCC)
        ELSE IF ndb = 2 /\ nhdb = 1 THEN set(UnsaturationDoubleBondCW)
        ELSE IF ndb = 2 /\ nhdb = 2 THEN set(UnsaturationDoubleBondWW)
        ELSE [a |-> a, err |-> FALSE, assigned |-> FALSE]

\* The bond the carbon case 120 of piElectronCount tests: the scan of the bond
\* set stops at the first double bond, and otherwise ends on the last bond.
scannedBond(m, a) ==
    LET bs == bondsAscending(m, a.bonds)
        ds == SelectSeq(bs, isDouble)
    IN  IF ds # <<>> THEN Head(ds)
        ELSE IF bs # <<>> THEN bs[Len(bs)]
        ELSE Nil

\* _Atom.firstDoublyBondedNeighbourId: the bond, or Nil
firstDoubleBond(m, a) ==
    LET ds == SelectSeq(bondsAscending(m, a.bonds), isDouble)
    IN  IF a.doubleBondCount = 0 \/ ds = <<>> THEN Nil ELSE Head(ds)

\* _Atom.piElectronCount: the count and the flag
Atom_piElectronCount(m, a) ==
    LET wtSum == 100 * a.doubleBondCount + 10 * a.singleBondCount + a.charge
        ans(c) == [n |-> c, ok |-> TRUE]
        exo(b) == isDouble(b) /\ ~Bond_isCyclic(b)
    IN  CASE a.atNum = 6 ->
                (CASE wtSum = 19 -> ans(2)
                   [] wtSum = 20 -> ans(0)
                   [] wtSum = 110 -> ans(1)
                   [] wtSum = 120 ->
                        (IF ~Bond_isCyclic(scannedBond(m, a)) THEN ans(0) ELSE ans(1))
                   [] OTHER -> ans(0))
          [] a.atNum = 7 ->
                (CASE wtSum \in {20, 30} -> ans(2)
                   [] wtSum \in {110, 121} -> ans(1)
                   [] OTHER -> ans(0))
          [] a.atNum = 8 ->
                (CASE wtSum = 20 -> ans(2)
                   [] wtSum = 111 -> ans(1)
                   [] OTHER -> ans(0))
          [] a.atNum = 16 ->
                (CASE wtSum = 20 -> ans(2)
                   [] wtSum = 111 -> ans(1)
                   [] wtSum = 120 ->
                        (LET b == firstDoubleBond(m, a)
                             oa == atomWithIid(m, otherAtomIid(b, a.iId))
                         IN  IF oa.atNum = 8 /\ ~Bond_isCyclic(b) THEN ans(2) ELSE ans(0))
                   [] wtSum = 220 ->
                        (IF Len(SelectSeq(bondsAscending(m, a.bonds), exo)) > 1
                         THEN [n |-> 0, ok |-> FALSE]
                         ELSE ans(0))
                   [] OTHER -> ans(0))
          [] OTHER -> ans(0)

\* _Atom.isCarbonylC
Atom_isCarbonylC(m, a) ==
    LET toOxygen(b) == isDouble(b) /\ atomWithIid(m, otherAtomIid(b, a.iId)).atNum = 8
    IN  /\ a.atNum = 6
        /\ a.unsaturation = UnsaturationDoubleBondW
        /\ SelectSeq(bondsAscending(m, a.bonds), toOxygen) # <<>>

\* piElectronCount dereferences the bond it has found: nil when the atom has
\* no bond (carbon, 120) or no double bond (sulphur, 120).
Atom_piElectronCountPanics(m, a) ==
    LET wtSum == 100 * a.doubleBondCount + 10 * a.singleBondCount + a.charge
    IN  \/ a.atNum = 6 /\ wtSum = 120 /\ scannedBond(m, a) = Nil
        \/ a.atNum = 16 /\ wtSum = 120 /\ firstDoubleBond(m, a) = Nil

(***************************************************************************)
(* Ring perception.  The perceiver is not part of the sources read; it     *)
(* walks each cycle it has found, hands the atoms to addAtom in walking    *)
(* order and closes the ring with complete.                                *)
(***************************************************************************)
RECURSIVE addAtoms(_, _, _)
addAtoms(m, r, aids) ==
    IF aids = <<>> THEN r
    ELSE addAtoms(m, Ring_addAtom(m, r, Head(aids)).r, Tail(aids))

perceiveRing(m, id, aids) ==
    Ring_complete(m, addAtoms(m, newRing(id), aids)).r

\* the walks of one cycle: from any atom, in either direction
reverse(s) == [i \in DOMAIN s |-> s[Len(s) + 1 - i]]

Walks(cycle) ==
    {rotate(cycle, k) : k \in DOMAIN cycle}
        \cup {rotate(reverse(cycle), k) : k \in DOMAIN cycle}

(***************************************************************************)
(* Specification SpecRingSys: the rings of a tricyclic molecule are added  *)
(* to and removed from its two ring systems.  The rings are 1-2-3, 2-3-4-5 *)
(* and 4-5-6: the first and the last have no atom in common, and the       *)
(* middle one shares a bond with each of them.                             *)
(***************************************************************************)
MaxRingSysOps == 4

Tricycle ==
    MkMolecule(<<1, 2, 3, 4, 5, 6>>,
               << <<1, 2, 1>>, <<2, 3, 1>>, <<3, 1, 1>>, <<3, 4, 1>>,
                  <<4, 5, 1>>, <<5, 2, 1>>, <<5, 6, 1>>, <<6, 4, 1>> >>)

\* The same molecule after ring perception, with two ring systems made.
RingSysMolecules ==
    {[Tricycle EXCEPT
        !.rings = <<perceiveRing(Tricycle, 1, w1),
                    perceiveRing(Tricycle, 2, <<2, 3, 4, 5>>),
                    perceiveRing(Tricycle, 3, w3)>>,
        !.ringSystems = <<newRingSystem(1), newRingSystem(2)>>]
     : w1 \in Walks(<<1, 2, 3>>), w3 \in {<<4, 5, 6>>, <<6, 5, 4>>}}

\* A call on ring system s: x is the index argument, y the ring's id, had
\* tells whether the ring was a member of s before the call, and plain
\* whether every call so far was addRing or removeRing.
RsOp(name, s, x, y, err, had, plain) ==
    [op |-> name, rs |-> s, x |-> x, y |-> y, err |-> err, had |-> had,
     plain |-> plain, sym |-> "", fatal |-> FALSE]

plainSoFar == IF lastOp.op = "none" THEN TRUE ELSE lastOp.plain

InitRingSys ==
    /\ mol \in RingSysMolecules
    /\ ring = newRing(1)
    /\ atom = Nil
    /\ IdleBuilders
    /\ IdleMolId
    /\ IdleAromaticity
    /\ normalisedOpen = FALSE
    /\ lastOp = NoOp
    /\ nops = 0

RSAddRing ==
    /\ nops < MaxRingSysOps
    /\ \E s \in DOMAIN mol.ringSystems, r \in Range(mol.rings) :
        LET rs == mol.ringSystems[s]
            res == RingSystem_addRing(rs, r)
        IN  /\ mol' = [mol EXCEPT !.ringSystems[s] = res.rs]
            /\ lastOp' = RsOp("addRing", s, Len(rs.rings), r.id, res.err,
                              r.id \in Range(rs.rings), plainSoFar)
    /\ nops' = nops + 1
    /\ UNCHANGED <<ring, atom, ab, bb, nextMolId, procs, issued, normalisedOpen, todo, aroDone>>

RSAddRingAt ==
    /\ nops < MaxRingSysOps
    /\ \E s \in DOMAIN mol.ringSystems, r \in Range(mol.rings) :
        LET rs == mol.ringSystems[s]
        IN  \E idx \in -1 .. (Len(rs.rings) + 1) :
                /\ ~RingSystem_addRingAtPanics(rs, idx, r)
                /\ LET res == RingSystem_addRingAt(rs, idx, r)
                   IN  /\ mol' = [mol EXCEPT !.ringSystems[s] = res.rs]
                       /\ lastOp' = RsOp("addRingAt", s, idx, r.id, res.err,
                                         r.id \in Range(rs.rings), FALSE)
    /\ nops' = nops + 1
    /\ UNCHANGED <<ring, atom, ab, bb, nextMolId, procs, issued, normalisedOpen, todo, aroDone>>

RSRemoveRing ==
    /\ nops < MaxRingSysOps
    /\ \E s \in DOMAIN mol.ringSystems, r \in Range(mol.rings) :
        LET rs == mol.ringSystems[s]
            res == RingSystem_removeRing(mol, rs, r)
        IN  /\ mol' = [mol EXCEPT !.ringSystems[s] = res.rs]
            /\ lastOp' = RsOp("removeRing", s, 0, r.id, res.err,
                              r.id \in Range(rs.rings), plainSoFar)
    /\ nops' = nops + 1
    /\ UNCHANGED <<ring, atom, ab, bb, nextMolId, procs, issued, normalisedOpen, todo, aroDone>>

RSRemoveRingAt ==
    /\ nops < MaxRingSysOps
    /\ \E s \in DOMAIN mol.ringSystems :
        LET rs == mol.ringSystems[s]
        IN  \E idx \in 0 .. Len(rs.rings) :
                /\ ~RingSystem_removeRingAtPanics(rs, idx)
                /\ LET res == RingSystem_removeRingAt(mol, rs, idx)
                   IN  /\ mol' = [mol EXCEPT !.ringSystems[s] = res.rs]
                       /\ lastOp' = RsOp("removeRingAt", s, idx, rs.rings[idx + 1],
                                         res.err, TRUE, FALSE)
    /\ nops' = nops + 1
    /\ UNCHANGED <<ring, atom, ab, bb, nextMolId, procs, issued, normalisedOpen, todo, aroDone>>

NextRingSys ==
    \/ RSAddRing
    \/ RSAddRingAt
    \/ RSRemoveRing
    \/ RSRemoveRingAt

SpecRingSys == InitRingSys /\ [][NextRingSys]_vars

(***************************************************************************)
(* Aromaticity (ring.go, ring_system.go).                                  *)
(***************************************************************************)
\* Go's remainder takes the sign of the dividend.
goRem(a, b) == IF a >= 0 THEN a % b ELSE -((-a) % b)

\* the members of a bit set in the order NextSet visits them
RECURSIVE ascending(_)
ascending(ids) ==
    IF ids = {} THEN <<>>
    ELSE LET lo == CHOOSE i \in ids : \A j \in ids : i <= j
         IN  <<lo>> \o ascending(ids \ {lo})

\* The loop of both piElectronCount methods over a list of input ids: the
\* sum of the atoms' counts, or 0 and false at the first atom that objects.
RECURSIVE sumPiElectrons(_, _)
sumPiElectrons(m, aids) ==
    IF aids = <<>> THEN [n |-> 0, ok |-> TRUE]
    ELSE LET c == Atom_piElectronCount(m, atomWithIid(m, Head(aids)))
             rest == sumPiElectrons(m, Tail(aids))
         IN  IF c.ok /\ rest.ok THEN [n |-> c.n + rest.n, ok |-> TRUE]
             ELSE [n |-> 0, ok |-> FALSE]

\* _Ring.piElectronCount: over the atom sequence
Ring_piElectronCount(m, r) == sumPiElectrons(m, r.atoms)

\* _RingSystem.piElectronCount: over the atom bit set
RingSystem_piElectronCount(m, rs) == sumPiElectrons(m, ascending(rs.atomBitSet))

\* a carbon whose unsaturation is None
isSp3Carbon(a) == a.atNum = 6 /\ a.unsaturation = UnsaturationNone

\* the molecule with isInAroRing set on the atoms, isAro on the bonds
markAromatic(m, aids, bids) ==
    [m EXCEPT
        !.atoms = [i \in DOMAIN @ |->
                     IF @[i].iId \in aids /\ i = atomIndexWithIid(m, @[i].iId)
                     THEN [@[i] EXCEPT !.isInAroRing = TRUE] ELSE @[i]],
        !.bonds = [i \in DOMAIN @ |->
                     IF @[i].id \in bids THEN [@[i] EXCEPT !.isAro = TRUE] ELSE @[i]]]

\* position of the ring with the id in the molecule's ring list
ringIndexWithId(m, id) ==
    CHOOSE i \in DOMAIN m.rings :
        /\ m.rings[i].id = id
        /\ \A j \in DOMAIN m.rings : m.rings[j].id = id => i <= j

\* _Ring.determineAromaticity, on the ring with the given id: the molecule
\* after the call
Ring_determineAromaticity(m, rid) ==
    LET r == ringWithId(m, rid)
        pi == Ring_piElectronCount(m, r)
    IN  IF ~pi.ok THEN m
        ELSE IF goRem(pi.n - 2, 4) # 0 THEN m
        ELSE IF \E i \in DOMAIN r.atoms : isSp3Carbon(atomWithIid(m, r.atoms[i])) THEN m
        ELSE LET het == \E i \in DOMAIN r.atoms : atomWithIid(m, r.atoms[i]).atNum # 6
                 marked == markAromatic(m, Range(r.atoms), Range(r.bonds))
             IN  [marked EXCEPT !.rings[ringIndexWithId(m, rid)] =
                                    [@ EXCEPT !.isAro = TRUE, !.isHetAro = @ \/ het]]

\* the rings of a list examined one after the other
RECURSIVE determineRings(_, _)
determineRings(m, rids) ==
    IF rids = <<>> THEN m
    ELSE determineRings(Ring_determineAromaticity(m, Head(rids)), Tail(rids))

\* _RingSystem.markAtomsBondsAromatic
RingSystem_markAtomsBondsAromatic(m, rs) ==
    markAromatic(m, rs.atomBitSet, rs.bondBitSet)

\* the three tests of _RingSystem.determineAromaticity that set err
systemFails(m, rs) ==
    LET pi == RingSystem_piElectronCount(m, rs)
    IN  \/ ~pi.ok
        \/ goRem(pi.n - 2, 4) # 0
        \/ \E aiid \in rs.atomBitSet : isSp3Carbon(atomWithIid(m, aiid))

\* A determineAromaticity that examines the rings of an aromatic system too.
RingSystem_determineAromaticity_AlsoRings(m, s) ==
    LET rs == m.ringSystems[s]
    IN  IF ~systemFails(m, rs)
        THEN determineRings(
                [RingSystem_markAtomsBondsAromatic(m, rs) EXCEPT !.ringSystems[s].isAro = TRUE],
                rs.rings)
        ELSE determineRings(m, rs.rings)

\* _RingSystem.determineAromaticity, on the system at position s of the
\* molecule's list: the molecule after the call
RingSystem_determineAromaticity(m, s) ==
    LET rs == m.ringSystems[s]
    IN  IF ~systemFails(m, rs)
        THEN [RingSystem_markAtomsBondsAromatic(m, rs) EXCEPT !.ringSystems[s].isAro = TRUE]
        ELSE determineRings(m, rs.rings)

(***************************************************************************)
(* Specification SpecAro: the rings of a molecule are perceived, grouped   *)
(* into ring systems, and the systems are examined for aromaticity.        *)
(*                                                                         *)
(* The molecule is complete when perception starts: every atom has its     *)
(* bonds, and its unsaturation is determined.  Hydrogens are not counted.  *)
(* The perceiver (not part of the sources read) walks each cycle from some *)
(* atom in some direction; for each ring it calls addAtom along the walk,  *)
(* complete, Bond.addRing on the ring's bonds, Atom.addRing on its atoms,  *)
(* and addRing on the ring's system.  determineAromaticity then runs once  *)
(* on every system.                                                        *)
(***************************************************************************)
RECURSIVE addBonds(_, _)
addBonds(a, bs) ==
    IF bs = <<>> THEN a ELSE addBonds(Atom_addBond(a, Head(bs)), Tail(bs))

\* kinds[i] is <<atomic number, charge>> of atom i; ends as for MkMolecule.
\* Every atom has its bonds; no unsaturation is determined yet.
BondedMolecule(kinds, ends) ==
    LET plain == MkMolecule([i \in DOMAIN kinds |-> i], ends)
        typed == [plain EXCEPT !.atoms =
                    [i \in DOMAIN kinds |->
                        [newAtom(kinds[i][1], i) EXCEPT !.nId = i, !.charge = kinds[i][2]]]]
    IN  [typed EXCEPT !.atoms =
            [i \in DOMAIN @ |->
                LET incident(b) == b.a1 = i \/ b.a2 = i
                IN  addBonds(@[i], SelectSeq(typed.bonds, incident))]]

\* the bonded molecule after determineUnsaturation on every atom
AroMolecule(kinds, ends) ==
    LET bonded == BondedMolecule(kinds, ends)
    IN  [bonded EXCEPT !.atoms =
            [i \in DOMAIN @ |-> Atom_determineUnsaturation(bonded, @[i]).a]]

\* a cycle of k carbons with alternating double and single bonds
Annulene(k) ==
    AroMolecule([i \in 1 .. k |-> <<6, 0>>],
                [i \in 1 .. k |-> <<i, (i % k) + 1, IF i % 2 = 1 THEN 2 ELSE 1>>])

\* size of the large annulene
BigRing == 30

\* Molecules, each with its cycles and the ring system of each cycle.
Perceptions ==
    { \* cyclopropenyl cation: 2 pi electrons
      [mol |-> AroMolecule(<< <<6, 0>>, <<6, 0>>, <<6, 1>> >>,
                           << <<1, 2, 2>>, <<2, 3, 1>>, <<3, 1, 1>> >>),
       cycles |-> << <<1, 2, 3>> >>, systems |-> <<1>>],
      \* cyclopropene: atom 3 is a saturated carbon
      [mol |-> AroMolecule(<< <<6, 0>>, <<6, 0>>, <<6, 0>> >>,
                           << <<1, 2, 2>>, <<2, 3, 1>>, <<3, 1, 1>> >>),
       cycles |-> << <<1, 2, 3>> >>, systems |-> <<1>>],
      \* cyclotrisilane: no pi electrons, no carbon
      [mol |-> AroMolecule(<< <<14, 0>>, <<14, 0>>, <<14, 0>> >>,
                           << <<1, 2, 1>>, <<2, 3, 1>>, <<3, 1, 1>> >>),
       cycles |-> << <<1, 2, 3>> >>, systems |-> <<1>>],
      \* thiirene 1,1-dioxide: the sulphur has two exocyclic double bonds
      [mol |-> AroMolecule(<< <<6, 0>>, <<6, 0>>, <<16, 0>>, <<8, 0>>, <<8, 0>> >>,
                           << <<1, 2, 2>>, <<2, 3, 1>>, <<3, 1, 1>>,
                              <<3, 4, 2>>, <<3, 5, 2>> >>),
       cycles |-> << <<1, 2, 3>> >>, systems |-> <<1>>],
      \* two cyclopropenyl cations joined by a bond: two ring systems
      [mol |-> AroMolecule(<< <<6, 0>>, <<6, 0>>, <<6, 1>>, <<6, 1>>, <<6, 0>>, <<6, 0>> >>,
                           << <<1, 2, 2>>, <<2, 3, 1>>, <<3, 1, 1>>, <<3, 4, 1>>,
                              <<4, 5, 1>>, <<5, 6, 2>>, <<6, 4, 1>> >>),
       cycles |-> << <<1, 2, 3>>, <<4, 5, 6>> >>, systems |-> <<1, 2>>],
      \* azirinyl cation: N2 in the ring, 2 pi electrons
      [mol |-> AroMolecule(<< <<6, 0>>, <<7, 0>>, <<6, 1>> >>,
                           << <<1, 2, 2>>, <<2, 3, 1>>, <<3, 1, 1>> >>),
       cycles |-> << <<1, 2, 3>> >>, systems |-> <<1>>],
      \* pyridine: N1 in the ring
      [mol |-> AroMolecule(<< <<7, 0>>, <<6, 0>>, <<6, 0>>, <<6, 0>>, <<6, 0>>, <<6, 0>> >>,
                           << <<1, 2, 2>>, <<2, 3, 1>>, <<3, 4, 2>>, <<4, 5, 1>>,
                              <<5, 6, 2>>, <<6, 1, 1>> >>),
       cycles |-> << <<1, 2, 3, 4, 5, 6>> >>, systems |-> <<1>>],
      \* benzene
      [mol |-> Annulene(6),
       cycles |-> << <<1, 2, 3, 4, 5, 6>> >>, systems |-> <<1>>],
      \* naphthalene: two rings that share the bond 5=10, one ring system
      [mol |-> AroMolecule([i \in 1 .. 10 |-> <<6, 0>>],
                           << <<1, 2, 2>>, <<2, 3, 1>>, <<3, 4, 2>>, <<4, 5, 1>>,
                              <<5, 10, 2>>, <<10, 1, 1>>, <<5, 6, 1>>, <<6, 7, 2>>,
                              <<7, 8, 1>>, <<8, 9, 2>>, <<9, 10, 1>> >>),
       cycles |-> << <<1, 2, 3, 4, 5, 10>>, <<5, 6, 7, 8, 9, 10>> >>,
       systems |-> <<1, 1>>],
      \* [30]annulene: 30 pi electrons
      [mol |-> Annulene(BigRing),
       cycles |-> << [i \in 1 .. BigRing |-> i] >>, systems |-> <<1>>] }

\* one walk for every cycle
WalkChoices(cycles) ==
    IF Len(cycles) = 1 THEN {<<w>> : w \in Walks(cycles[1])}
    ELSE {<<w1, w2>> : w1 \in Walks(cycles[1]), w2 \in Walks(cycles[2])}

Call(name, rid, arg) == [op |-> name, rid |-> rid, arg |-> arg]

\* the calls that record ring rid along walk w and put it in system s
callsFor(m, rid, w, s) ==
    [j \in DOMAIN w |-> Call("addAtom", rid, w[j])]
        \o <<Call("complete", rid, 0)>>
        \o [j \in DOMAIN w |->
                Call("Bond.addRing", rid, bondBetween(m, w[j], w[(j % Len(w)) + 1]).id)]
        \o [j \in DOMAIN w |-> Call("Atom.addRing", rid, w[j])]
        \o <<Call("addRing", rid, s)>>

perceptionCalls(p, walks) ==
    IF Len(walks) = 1 THEN callsFor(p.mol, 1, walks[1], p.systems[1])
    ELSE callsFor(p.mol, 1, walks[1], p.systems[1])
            \o callsFor(p.mol, 2, walks[2], p.systems[2])

InitAro ==
    /\ \E p \in Perceptions :
        \E walks \in WalkChoices(p.cycles) :
            /\ mol = [p.mol EXCEPT
                        !.rings = [i \in DOMAIN p.cycles |-> newRing(i)],
                        !.ringSystems = [s \in Range(p.systems) |-> newRingSystem(s)]]
            /\ todo = perceptionCalls(p, walks)
    /\ aroDone = {}
    /\ ring = newRing(1)
    /\ atom = Nil
    /\ IdleBuilders
    /\ IdleMolId
    /\ normalisedOpen = FALSE
    /\ lastOp = NoOp
    /\ nops = 0

AroAddAtom ==
    /\ todo # <<>>
    /\ Head(todo).op = "addAtom"
    /\ LET c == Head(todo)
           res == Ring_addAtom(mol, mol.rings[c.rid], c.arg)
       IN  /\ mol' = [mol EXCEPT !.rings[c.rid] = res.r]
           /\ lastOp' = Op("addAtom", "", c.arg, c.rid, res.err, FALSE)
    /\ todo' = Tail(todo)
    /\ UNCHANGED <<ring, atom, ab, bb, nextMolId, procs, issued, normalisedOpen, nops, aroDone>>

AroComplete ==
    /\ todo # <<>>
    /\ Head(todo).op = "complete"
    /\ LET c == Head(todo)
           res == Ring_complete(mol, mol.rings[c.rid])
       IN  /\ mol' = [mol EXCEPT !.rings[c.rid] = res.r]
           /\ lastOp' = Op("complete", "", 0, c.rid, res.err, FALSE)
    /\ todo' = Tail(todo)
    /\ UNCHANGED <<ring, atom, ab, bb, nextMolId, procs, issued, normalisedOpen, nops, aroDone>>

AroBondAddRing ==
    /\ todo # <<>>
    /\ Head(todo).op = "Bond.addRing"
    /\ LET c == Head(todo)
       IN  /\ mol' = [mol EXCEPT !.bonds =
                        [i \in DOMAIN @ |->
                            IF @[i].id = c.arg THEN Bond_addRing(@[i], c.rid) ELSE @[i]]]
           /\ lastOp' = Op("Bond.addRing", "", c.arg, c.rid, FALSE, FALSE)
    /\ todo' = Tail(todo)
    /\ UNCHANGED <<ring, atom, ab, bb, nextMolId, procs, issued, normalisedOpen, nops, aroDone>>

AroAtomAddRing ==
    /\ todo # <<>>
    /\ Head(todo).op = "Atom.addRing"
    /\ LET c == Head(todo)
       IN  /\ mol' = [mol EXCEPT !.atoms[atomIndexWithIid(mol, c.arg)] =
                                    Atom_addRing(@, c.rid)]
           /\ lastOp' = Op("Atom.addRing", "", c.arg, c.rid, FALSE, FALSE)
    /\ todo' = Tail(todo)
    /\ UNCHANGED <<ring, atom, ab, bb, nextMolId, procs, issued, normalisedOpen, nops, aroDone>>

AroAddRing ==
    /\ todo # <<>>
    /\ Head(todo).op = "addRing"
    /\ LET c == Head(todo)
           res == RingSystem_addRing(mol.ringSystems[c.arg], mol.rings[c.rid])
       IN  /\ mol' = [mol EXCEPT !.ringSystems[c.arg] = res.rs]
           /\ lastOp' = Op("addRing", "", c.arg, c.rid, res.err, FALSE)
    /\ todo' = Tail(todo)
    /\ UNCHANGED <<ring, atom, ab, bb, nextMolId, procs, issued, normalisedOpen, nops, aroDone>>

AroDetermine ==
    /\ todo = <<>>
    /\ \E s \in DOMAIN mol.ringSystems \ aroDone :
        /\ mol' = RingSystem_determineAromaticity(mol, s)
        /\ aroDone' = aroDone \cup {s}
        /\ lastOp' = Op("determineAromaticity", "", s, 0, FALSE, FALSE)
    /\ UNCHANGED <<ring, atom, ab, bb, nextMolId, procs, issued, normalisedOpen, nops, todo>>

NextAro ==
    \/ AroAddAtom
    \/ AroComplete
    \/ AroBondAddRing
    \/ AroAtomAddRing
    \/ AroAddRing
    \/ AroDetermine

SpecAro == InitAro /\ [][NextAro]_vars

(***************************************************************************)
(* Specification SpecClassify: an atom with up to MaxNbrs neighbours, in   *)
(* or next to a three-membered ring or in no ring, is classified.          *)
(*                                                                         *)
(* Atom 1 is the centre; atom k+1 is its k-th neighbour.  The molecule     *)
(* carries every bond on both of its atoms, and the perceiver has recorded *)
(* the ring, when there is one, on the ring's atoms and bonds.             *)
(* determineUnsaturation then runs on the centre; piElectronCount and      *)
(* isCarbonylC are asked of the centre once that is over.                  *)
(***************************************************************************)
MaxNbrs == 4

\* <<atomic number, bond order>> of a neighbour
NbrKinds == << <<6, 1>>, <<6, 2>>, <<6, 3>>, <<7, 3>>, <<8, 1>>, <<8, 2>> >>

\* the neighbours of the centre, listed by kind
NbrChoices ==
    {nb \in UNION {[1 .. k -> DOMAIN NbrKinds] : k \in 0 .. MaxNbrs} :
        \A i, j \in DOMAIN nb : i < j => nb[i] <= nb[j]}

\* <<atomic number, charge>> of the centre
CentreKinds == {6, 7, 8, 16} \X {-1, 0, 1}

\* <<0, 0>>: no ring; <<i, j>>: the ring centre, neighbour i, neighbour j;
\* <<i, 0>>: a ring through neighbour i and two further carbons
RingPlaces(k) ==
    {<<0, 0>>} \cup {<<i, 0>> : i \in 1 .. k}
               \cup {pl \in (1 .. k) \X (1 .. k) : pl[1] < pl[2]}

\* what the perceiver leaves behind for one ring walked along w: the ring,
\* and the ring's id on its atoms and bonds
recordRing(m, rid, w) ==
    LET r == perceiveRing(m, rid, w)
    IN  [m EXCEPT
            !.rings = Append(@, r),
            !.atoms = [i \in DOMAIN @ |->
                        IF @[i].iId \in Range(r.atoms) THEN Atom_addRing(@[i], rid) ELSE @[i]],
            !.bonds = [i \in DOMAIN @ |->
                        IF @[i].id \in Range(r.bonds) THEN Bond_addRing(@[i], rid) ELSE @[i]]]

Environment(centre, nb, place) ==
    LET k == Len(nb)
        kinds == << centre >>
                    \o [i \in 1 .. k |-> <<NbrKinds[nb[i]][1], 0>>]
                    \o (IF place[1] > 0 /\ place[2] = 0
                        THEN << <<6, 0>>, <<6, 0>> >> ELSE <<>>)
        ends == [i \in 1 .. k |-> <<1, i + 1, NbrKinds[nb[i]][2]>>]
                    \o (CASE place[1] = 0 -> <<>>
                          [] place[1] > 0 /\ place[2] > 0 ->
                                << <<place[1] + 1, place[2] + 1, 1>> >>
                          [] OTHER ->
                                << <<place[1] + 1, k + 2, 1>>, <<k + 2, k + 3, 1>>,
                                   <<k + 3, place[1] + 1, 1>> >>)
        m == BondedMolecule(kinds, ends)
    IN  CASE place[1] = 0 -> m
          [] place[1] > 0 /\ place[2] > 0 ->
                recordRing(m, 1, <<1, place[1] + 1, place[2] + 1>>)
          [] OTHER -> recordRing(m, 1, <<place[1] + 1, k + 2, k + 3>>)

ClsOp(name, x, n, ok) == [op |-> name, x |-> x, n |-> n, ok |-> ok]

InitClassify ==
    /\ \E centre \in CentreKinds :
        \E nb \in NbrChoices :
            \E place \in RingPlaces(Len(nb)) :
                mol = Environment(centre, nb, place)
    /\ todo = <<Call("determineUnsaturation", 0, 1)>>
    /\ aroDone = {}
    /\ ring = newRing(1)
    /\ atom = Nil
    /\ IdleBuilders
    /\ IdleMolId
    /\ normalisedOpen = FALSE
    /\ lastOp = NoOp
    /\ nops = 0

ClsDetermineUnsaturation ==
    /\ todo # <<>>
    /\ Head(todo).op = "determineUnsaturation"
    /\ LET c == Head(todo)
           res == Atom_determineUnsaturation(mol, atomWithIid(mol, c.arg))
       IN  /\ mol' = [mol EXCEPT !.atoms[atomIndexWithIid(mol, c.arg)] = res.a]
           /\ lastOp' = [op |-> "determineUnsaturation", x |-> c.arg,
                         err |-> res.err, assigned |-> res.assigned]
    /\ todo' = Tail(todo)
    /\ UNCHANGED <<ring, atom, ab, bb, nextMolId, procs, issued, normalisedOpen, nops, aroDone>>

ClsPiElectronCount ==
    /\ todo = <<>>
    /\ ~Atom_piElectronCountPanics(mol, mol.atoms[1])
    /\ LET res == Atom_piElectronCount(mol, mol.atoms[1])
       IN  lastOp' = ClsOp("piElectronCount", mol.atoms[1].iId, res.n, res.ok)
    /\ UNCHANGED <<mol, ring, atom, ab, bb, nextMolId, procs, issued, normalisedOpen, nops,
                   todo, aroDone>>

ClsIsCarbonylC ==
    /\ todo = <<>>
    /\ lastOp' = ClsOp("isCarbonylC", mol.atoms[1].iId, 0,
                       Atom_isCarbonylC(mol, mol.atoms[1]))
    /\ UNCHANGED <<mol, ring, atom, ab, bb, nextMolId, procs, issued, normalisedOpen, nops,
                   todo, aroDone>>

NextClassify ==
    \/ ClsDetermineUnsaturation
    \/ ClsPiElectronCount
    \/ ClsIsCarbonylC

SpecClassify == InitClassify /\ [][NextClassify]_vars

(***************************************************************************)
(* Queries on perceived rings (atom.go, bond.go, ring.go).                 *)
(***************************************************************************)
\* math.MaxUint8
MaxUint8 == Uint8Mod - 1

\* The loop of both smallestRing methods over the ring ids in visiting
\* order: min is compared with every size and never written.
RECURSIVE smallestScan(_, _, _, _, _)
smallestScan(m, rids, min, c, ret) ==
    IF rids = <<>> THEN [c |-> c, ret |-> ret]
    ELSE LET sz == size(ringWithId(m, Head(rids)))
         IN  IF sz = min THEN smallestScan(m, Tail(rids), min, c + 1, ret)
             ELSE IF sz < min THEN smallestScan(m, Tail(rids), min, 1, Head(rids))
             ELSE smallestScan(m, Tail(rids), min, c, ret)

\* _Atom.smallestRing: the ring id and whether an error is answered
Atom_smallestRing(m, a) ==
    IF ~Atom_isCyclic(a) THEN [rid |-> 0, err |-> TRUE]
    ELSE LET res == smallestScan(m, ascending(a.rings), MaxUint8, 0, 0)
         IN  IF res.c > 1 THEN [rid |-> 0, err |-> TRUE]
             ELSE [rid |-> res.ret, err |-> FALSE]

\* _Bond.smallestRing
Bond_smallestRing(m, b) ==
    IF ~Bond_isCyclic(b) THEN [rid |-> 0, err |-> TRUE]
    ELSE LET res == smallestScan(m, b.rings, MaxUint8, 0, 0)
         IN  IF res.c > 1 THEN [rid |-> 0, err |-> TRUE]
             ELSE [rid |-> res.ret, err |-> FALSE]

\* The loop of distanceBetweenAtoms from the 0-based index k on: an atom
\* equal to aid1 is never compared with aid2, and the loop ends once two
\* atoms have matched.
RECURSIVE distanceScan(_, _, _, _, _, _, _)
distanceScan(atoms, k, aid1, aid2, i1, i2, c) ==
    IF k = Len(atoms) \/ c = 2 THEN [i1 |-> i1, i2 |-> i2]
    ELSE IF atoms[k + 1] = aid1
    THEN distanceScan(atoms, k + 1, aid1, aid2, k, i2, c + 1)
    ELSE IF atoms[k + 1] = aid2
    THEN distanceScan(atoms, k + 1, aid1, aid2, i1, k, c + 1)
    ELSE distanceScan(atoms, k + 1, aid1, aid2, i1, i2, c)

\* _Ring.distanceBetweenAtoms: the distance and whether an error is answered
Ring_distanceBetweenAtoms(r, aid1, aid2) ==
    IF ~hasAtom(r, aid1) \/ ~hasAtom(r, aid2) THEN [d |-> 0, err |-> TRUE]
    ELSE LET at == distanceScan(r.atoms, 0, aid1, aid2, -1, -1, 0)
             d1 == IF at.i1 - at.i2 < 0 THEN at.i2 - at.i1 ELSE at.i1 - at.i2
             d2 == size(r) - d1
         IN  [d |-> IF d1 < d2 THEN d1 ELSE d2, err |-> FALSE]

(***************************************************************************)
(* Specification SpecQuery: the rings of a bicyclic molecule have been     *)
(* perceived, in some order and along some walks, and the molecule is      *)
(* asked for smallest rings and for distances in a ring.                   *)
(***************************************************************************)
\* 1-methylbicyclo[2.1.0]pentane: a three- and a four-membered ring share
\* the bond 2-3; atom 6 is in no ring
Housane ==
    [mol |-> MkMolecule(<<1, 2, 3, 4, 5, 6>>,
                        << <<1, 2, 1>>, <<2, 3, 1>>, <<3, 1, 1>>, <<3, 4, 1>>,
                           <<4, 5, 1>>, <<5, 2, 1>>, <<1, 6, 1>> >>),
     cycles |-> << <<1, 2, 3>>, <<2, 3, 4, 5>> >>]

\* 2-methylbicyclo[1.1.0]butane: two three-membered rings share the bond 1-3
Bicyclobutane ==
    [mol |-> MkMolecule(<<1, 2, 3, 4, 5>>,
                        << <<1, 2, 1>>, <<2, 3, 1>>, <<3, 4, 1>>, <<4, 1, 1>>,
                           <<1, 3, 1>>, <<2, 5, 1>> >>),
     cycles |-> << <<1, 2, 3>>, <<1, 3, 4>> >>]

\* the molecule after perception: the two cycles in either order, each
\* along one of its walks
Perceived(p) ==
    {recordRing(recordRing(p.mol, 1, w1), 2, w2) :
        w1 \in Walks(p.cycles[1]), w2 \in Walks(p.cycles[2])}
    \cup
    {recordRing(recordRing(p.mol, 1, w2), 2, w1) :
        w1 \in Walks(p.cycles[1]), w2 \in Walks(p.cycles[2])}

QOp(name, x, y, rid, n, err) ==
    [op |-> name, x |-> x, y |-> y, rid |-> rid, n |-> n, err |-> err]

InitQuery ==
    /\ mol \in Perceived(Housane) \cup Perceived(Bicyclobutane)
    /\ todo = <<>>
    /\ aroDone = {}
    /\ ring = newRing(1)
    /\ atom = Nil
    /\ IdleBuilders
    /\ IdleMolId
    /\ normalisedOpen = FALSE
    /\ lastOp = NoOp
    /\ nops = 0

QAtomSmallestRing ==
    /\ \E i \in DOMAIN mol.atoms :
        LET res == Atom_smallestRing(mol, mol.atoms[i])
        IN  lastOp' = QOp("Atom.smallestRing", mol.atoms[i].iId, 0, res.rid, 0, res.err)
    /\ UNCHANGED <<mol, ring, atom, ab, bb, nextMolId, procs, issued, normalisedOpen, nops,
                   todo, aroDone>>

QBondSmallestRing ==
    /\ \E i \in DOMAIN mol.bonds :
        LET res == Bond_smallestRing(mol, mol.bonds[i])
        IN  lastOp' = QOp("Bond.smallestRing", mol.bonds[i].id, 0, res.rid, 0, res.err)
    /\ UNCHANGED <<mol, ring, atom, ab, bb, nextMolId, procs, issued, normalisedOpen, nops,
                   todo, aroDone>>

QDistanceBetweenAtoms ==
    /\ \E j \in DOMAIN mol.rings :
        \E aid1 \in AtomIdInputs(mol), aid2 \in AtomIdInputs(mol) :
            LET res == Ring_distanceBetweenAtoms(mol.rings[j], aid1, aid2)
            IN  lastOp' = QOp("distanceBetweenAtoms", aid1, aid2, mol.rings[j].id,
                              res.d, res.err)
    /\ UNCHANGED <<mol, ring, atom, ab, bb, nextMolId, procs, issued, normalisedOpen, nops,
                   todo, aroDone>>

NextQuery ==
    \/ QAtomSmallestRing
    \/ QBondSmallestRing
    \/ QDistanceBetweenAtoms

SpecQuery == InitQuery /\ [][NextQuery]_vars

(***************************************************************************)
(* Properties of rings (SpecRing).                                         *)
(***************************************************************************)
\* The bond at index i joins the atoms at i and i+1; the last bond joins the
\* last atom to the first.
BondsJoinAtoms(m, r) ==
    /\ Len(r.bonds) = Len(r.atoms)
    /\ \A i \in DOMAIN r.atoms :
        /\ bondWithId(m, r.bonds[i]) # Nil
        /\ bondJoins(bondWithId(m, r.bonds[i]),
                     r.atoms[i], r.atoms[(i % Len(r.atoms)) + 1])

\* C1: a ring built by addAtom calls and closed by a successful complete()
\* holds no atom id twice in its atom sequence and no bond id twice in its
\* bond sequence.
C1_NoAtomOrBondTwice ==
    (ring.isComplete /\ ~normalisedOpen) =>
        (NoDup(ring.atoms) /\ NoDup(ring.bonds))

\* C1, the state the claim is about: complete() has just closed a ring.
C1_Closed ==
    /\ lastOp.op = "complete"
    /\ ~lastOp.err
    /\ ring.isComplete
    /\ ~normalisedOpen

\* C9: a complete ring has at least 3 atoms and as many bonds as atoms; and
\* complete() on a ring of fewer than 3 atoms, or whose first and last atoms
\* are not bonded, answers an error and leaves the ring as it was, incomplete.
C9_CompleteContract ==
    [][ /\ ring'.isComplete =>
            (Len(ring'.atoms) >= 3 /\ Len(ring'.bonds) = Len(ring'.atoms))
        /\ ( /\ lastOp'.op = "complete"
             /\ \/ Len(ring.atoms) < 3
                \/ bondBetween(mol, ring.atoms[1], ring.atoms[Len(ring.atoms)]) = Nil )
            => (lastOp'.err /\ ring' = ring /\ ~ring'.isComplete)
      ]_vars

\* C9, the state the claim is about: complete() refused a ring of three or
\* more atoms whose ends are not bonded.
C9_RefusedOpenEnds ==
    /\ lastOp.op = "complete"
    /\ lastOp.err
    /\ Len(ring.atoms) >= 3
    /\ ~ring.isComplete

\* C10: in a completed ring, at every later point of its life, the bond at
\* index i joins the atoms at index i and i+1, and the last bond joins the
\* last atom to the first.
C10_BondsFollowAtoms ==
    (ring.isComplete /\ ~normalisedOpen) => BondsJoinAtoms(mol, ring)

\* C10, the state the claim is about: normalise() has run on a completed ring.
C10_NormalisedAfterComplete ==
    /\ lastOp.op = "normalise"
    /\ ~lastOp.err
    /\ ring.isComplete
    /\ ~normalisedOpen

\* the normalised id of the atom with input id aid
nIdOf(m, aid) == atomWithIid(m, aid).nId

\* t is s read from some position on, cyclically
isRotationOf(t, s) ==
    /\ Len(t) = Len(s)
    /\ \E k \in 0 .. (Len(s) - 1) :
            \A i \in DOMAIN s : t[i] = s[((i - 1 + k) % Len(s)) + 1]

\* C11: after normalise() on a non-empty ring the first atom of the sequence
\* has the smallest normalised id of the ring, the sequence is a rotation of
\* the sequence before the call, and one more normalise() changes nothing.
C11_NormaliseRotatesToMinimum ==
    [][ (lastOp'.op = "normalise" /\ ~lastOp'.err) =>
          /\ \A i \in DOMAIN ring'.atoms :
                nIdOf(mol, ring'.atoms[1]) <= nIdOf(mol, ring'.atoms[i])
          /\ isRotationOf(ring'.atoms, ring.atoms)
          /\ Ring_normalise(mol, ring').r = ring'
      ]_vars

\* C11, the state the claim is about: normalise() moved the atom with the
\* smallest normalised id from a later position to the front.
C11_Rotated ==
    /\ lastOp.op = "normalise"
    /\ ~lastOp.err
    /\ lastOp.x > 0

\* C12: after normalise() on a completed ring, of the two ring neighbours of
\* the first atom the one placed second in the sequence has the smaller
\* normalised id (the orientation is fixed).
C12_OrientationFixed ==
    ( /\ lastOp.op = "normalise"
      /\ ~lastOp.err
      /\ ring.isComplete
      /\ NoDup(ring.atoms)
      /\ Len(ring.atoms) >= 3 )
    => nIdOf(mol, ring.atoms[2]) <= nIdOf(mol, ring.atoms[Len(ring.atoms)])

\* C12, the state the claim is about: a completed ring of distinct atoms has
\* been normalised.
C12_Canonicalised ==
    /\ lastOp.op = "normalise"
    /\ ~lastOp.err
    /\ ring.isComplete
    /\ NoDup(ring.atoms)
    /\ Len(ring.atoms) >= 3

\* C13: addAtom of an atom that is not yet in the ring and has no bond to the
\* most recently added atom answers an error and leaves the ring as it was;
\* complete() on a ring that is already complete answers an error.
C13_RingViolationsReported ==
    [][ /\ ( /\ lastOp'.op = "addAtom"
             /\ Len(ring.atoms) > 0
             /\ lastOp'.x \notin Range(ring.atoms)
             /\ bondBetween(mol, ring.atoms[Len(ring.atoms)], lastOp'.x) = Nil )
            => (lastOp'.err /\ ring' = ring)
        /\ (lastOp'.op = "complete" /\ ring.isComplete) => lastOp'.err
      ]_vars

\* C13, the state the claim is about: addAtom refused an atom that is not
\* bonded to the last atom of an open ring.
C13_RefusedUnbondedAtom ==
    /\ lastOp.op = "addAtom"
    /\ lastOp.err
    /\ ~ring.isComplete
    /\ Len(ring.atoms) >= 1


\* C29: for a completed ring hasAtom is true exactly of the atoms of the
\* atom sequence and hasBond exactly of the bonds of the bond sequence; and
\* addAtom of an atom that is in the sequence already, the first one
\* included, leaves the ring as it is.
C29_MembershipMatchesSequences ==
    [][ /\ ring'.isComplete =>
            /\ \A aid \in AtomIdInputs(mol) :
                    hasAtom(ring', aid) <=> aid \in Range(ring'.atoms)
            /\ \A i \in DOMAIN mol.bonds :
                    hasBond(ring', mol.bonds[i].id) <=> mol.bonds[i].id \in Range(ring'.bonds)
        /\ (lastOp'.op = "addAtom" /\ lastOp'.x \in Range(ring.atoms))
                => ring' = ring
      ]_vars

\* C29, the state the claim is about: a ring of at least three atoms is
\* complete, and hasAtom is true of one of its atoms.
C29_CompletedRing ==
    /\ ring.isComplete
    /\ Len(ring.atoms) >= 3
    /\ \E aid \in Range(ring.atoms) : hasAtom(ring, aid)

(***************************************************************************)
(* Properties of ring systems (SpecRingSys).                               *)
(***************************************************************************)
\* the ids of the ring systems that hold the ring
systemsOf(m, rid) ==
    {s \in DOMAIN m.ringSystems : rid \in Range(m.ringSystems[s].rings)}

\* C14: addRing or addRingAt, at any index, of a ring the system already
\* contains answers no error and leaves the system's ring list, atom bit set
\* and bond bit set as they were.
C14_AddingMemberChangesNothing ==
    [][ ( /\ lastOp'.op \in {"addRing", "addRingAt"}
          /\ lastOp'.y \in Range(mol.ringSystems[lastOp'.rs].rings) )
        => (~lastOp'.err /\ mol'.ringSystems = mol.ringSystems)
      ]_vars

\* C14, the state the claim is about: addRingAt was given a member ring and
\* an index outside the list.
C14_MemberAddedAtBadIndex ==
    /\ lastOp.op = "addRingAt"
    /\ lastOp.had
    /\ lastOp.x < 0

\* C15: after any addRing, addRingAt, removeRing and removeRingAt calls, no
\* ring is a member of more than one ring system.
C15_SystemsNeverOverlap ==
    \A i \in DOMAIN mol.rings : Cardinality(systemsOf(mol, mol.rings[i].id)) <= 1

\* C15, the state the claim is about: a ring was handed to a system while
\* another system held it.
C15_AddedMemberOfOtherSystem ==
    /\ lastOp.op \in {"addRing", "addRingAt"}
    /\ ~lastOp.had
    /\ systemsOf(mol, lastOp.y) \ {lastOp.rs} # {}

\* two rings have an atom of their atom sequences in common
sharesAtom(m, rid1, rid2) ==
    Range(ringWithId(m, rid1).atoms) \cap Range(ringWithId(m, rid2).atoms) # {}

sharesBond(m, rid1, rid2) ==
    Range(ringWithId(m, rid1).bonds) \cap Range(ringWithId(m, rid2).bonds) # {}

\* the rings of ids that a chain of atom-sharing rings links to those in seen
RECURSIVE reachFrom(_, _, _)
reachFrom(m, ids, seen) ==
    LET next == seen \cup {i \in ids : \E j \in seen : sharesAtom(m, i, j)}
    IN  IF next = seen THEN seen ELSE reachFrom(m, ids, next)

connected(m, rs) ==
    \A i \in Range(rs.rings) : reachFrom(m, Range(rs.rings), {i}) = Range(rs.rings)

\* C16: after addRing and removeRing calls only, any two member rings of a
\* system are linked by a chain of member rings in which neighbours share an
\* atom; and addRing answers an error, and changes nothing, for a ring that
\* shares no atom and no bond with the rings of a non-empty system.
C16_SystemStaysConnected ==
    [][ /\ lastOp'.plain =>
                \A s \in DOMAIN mol'.ringSystems : connected(mol', mol'.ringSystems[s])
        /\ ( /\ lastOp'.op = "addRing"
             /\ lastOp'.plain
             /\ mol.ringSystems[lastOp'.rs].rings # <<>>
             /\ \A rid \in Range(mol.ringSystems[lastOp'.rs].rings) :
                    /\ ~sharesAtom(mol, rid, lastOp'.y)
                    /\ ~sharesBond(mol, rid, lastOp'.y) )
            => (lastOp'.err /\ mol' = mol)
      ]_vars

\* C16, the state the claim is about: removeRing has taken a ring out of a
\* system that keeps two or more rings, after addRing and removeRing calls
\* only.
C16_RemovedFromLargerSystem ==
    /\ lastOp.op = "removeRing"
    /\ lastOp.plain
    /\ lastOp.had
    /\ Len(mol.ringSystems[lastOp.rs].rings) >= 2

\* the ring has an atom or a bond in common with a ring of the system
sharesWithSystem(m, rs, rid) ==
    \E other \in Range(rs.rings) : sharesAtom(m, rid, other) \/ sharesBond(m, rid, other)

\* C28: addRingAt(idx, r) with 0 <= idx <= size, r not a member and r
\* sharing an atom or bond with the system, leaves the ring list
\* old[0..idx), r, old[idx..size).
C28_InsertedAtIndex ==
    [][ ( /\ lastOp'.op = "addRingAt"
          /\ ~lastOp'.had
          /\ lastOp'.x >= 0
          /\ lastOp'.x <= Len(mol.ringSystems[lastOp'.rs].rings)
          /\ sharesWithSystem(mol, mol.ringSystems[lastOp'.rs], lastOp'.y) )
        => LET old == mol.ringSystems[lastOp'.rs].rings
           IN  mol'.ringSystems[lastOp'.rs].rings =
                    SubSeq(old, 1, lastOp'.x) \o <<lastOp'.y>>
                        \o SubSeq(old, lastOp'.x + 1, Len(old))
      ]_vars

\* C28, the state the claim is about: addRingAt has put a ring that was not
\* a member before the end of a system's list.
C28_InsertedBeforeEnd ==
    /\ lastOp.op = "addRingAt"
    /\ ~lastOp.had
    /\ ~lastOp.err
    /\ lastOp.x >= 0
    /\ lastOp.x < Len(mol.ringSystems[lastOp.rs].rings) - 1

(***************************************************************************)
(* Properties of aromaticity determination (SpecAro).                      *)
(***************************************************************************)
\* perception is over and determineAromaticity has run on every ring system
allDetermined ==
    /\ todo = <<>>
    /\ mol.ringSystems # <<>>
    /\ aroDone = DOMAIN mol.ringSystems

\* the atoms of the rings of a ring system
memberAtoms(m, rs) ==
    UNION {Range(ringWithId(m, rid).atoms) : rid \in Range(rs.rings)}

\* the pi electrons a set of atoms contributes
RECURSIVE piTotal(_, _)
piTotal(m, aids) ==
    IF aids = {} THEN 0
    ELSE LET aid == CHOOSE x \in aids : TRUE
         IN  Atom_piElectronCount(m, atomWithIid(m, aid)).n + piTotal(m, aids \ {aid})

\* every atom is aromaticity-compatible, the pi electrons number 4k + 2, and
\* no carbon is saturated
qualifies(m, aids) ==
    /\ \A aid \in aids : Atom_piElectronCount(m, atomWithIid(m, aid)).ok
    /\ piTotal(m, aids) >= 2
    /\ (piTotal(m, aids) - 2) % 4 = 0
    /\ \A aid \in aids : ~isSp3Carbon(atomWithIid(m, aid))

\* C17: once determineAromaticity has run on every ring system, no ring of a
\* system with isAro set has its own isAro or isHetAro set.
C17_RingsOfAromaticSystemUnmarked ==
    allDetermined =>
        \A s \in DOMAIN mol.ringSystems :
            mol.ringSystems[s].isAro =>
                \A rid \in Range(mol.ringSystems[s].rings) :
                    /\ ~ringWithId(mol, rid).isAro
                    /\ ~ringWithId(mol, rid).isHetAro

\* C17, the state the claim is about: a system of two rings was found
\* aromatic.
C17_FusedSystemAromatic ==
    /\ allDetermined
    /\ \E s \in DOMAIN mol.ringSystems :
        /\ mol.ringSystems[s].isAro
        /\ Len(mol.ringSystems[s].rings) >= 2

\* C18: determineAromaticity marks a ring system aromatic if and only if
\* every atom of its rings is aromaticity-compatible, the atoms' pi electrons
\* sum to some n >= 2 with n - 2 divisible by 4, and no carbon among them
\* has unsaturation None.
C18_SystemAromaticIffHueckel ==
    todo = <<>> =>
        \A s \in aroDone :
            mol.ringSystems[s].isAro
                <=> qualifies(mol, memberAtoms(mol, mol.ringSystems[s]))

\* C18, the state the claim is about: determineAromaticity has run on a
\* system whose atoms meet the three conditions.
C18_DeterminedQualifyingSystem ==
    /\ todo = <<>>
    /\ \E s \in aroDone : qualifies(mol, memberAtoms(mol, mol.ringSystems[s]))

\* C19: a ring system, or a ring, whose atoms contribute more than 26 pi
\* electrons is never marked aromatic.
C19_NoAromaticityAbove26 ==
    todo = <<>> =>
        \A s \in aroDone :
            /\ piTotal(mol, memberAtoms(mol, mol.ringSystems[s])) > 26
                    => ~mol.ringSystems[s].isAro
            /\ \A rid \in Range(mol.ringSystems[s].rings) :
                    piTotal(mol, Range(ringWithId(mol, rid).atoms)) > 26
                        => ~ringWithId(mol, rid).isAro

\* C19, the state the claim is about: determineAromaticity has run on a
\* system with more than 26 pi electrons.
C19_DeterminedLargeSystem ==
    /\ todo = <<>>
    /\ \E s \in aroDone : piTotal(mol, memberAtoms(mol, mol.ringSystems[s])) > 26

\* C20: after aromaticity determination a bond has isAro set if and only if
\* it is in the bond sequence of a ring that is marked aromatic or whose ring
\* system is marked aromatic.
C20_AromaticBondsMarked ==
    allDetermined =>
        \A i \in DOMAIN mol.bonds :
            mol.bonds[i].isAro <=>
                \E j \in DOMAIN mol.rings :
                    /\ mol.bonds[i].id \in Range(mol.rings[j].bonds)
                    /\ \/ mol.rings[j].isAro
                       \/ \E s \in systemsOf(mol, mol.rings[j].id) :
                            mol.ringSystems[s].isAro

\* C20, the state the claim is about: a ring system was found aromatic and
\* bonds were marked.
C20_SystemMarkedBonds ==
    /\ allDetermined
    /\ \E s \in DOMAIN mol.ringSystems : mol.ringSystems[s].isAro
    /\ \E i \in DOMAIN mol.bonds : mol.bonds[i].isAro

\* six carbons in a cycle, the bonds alternately double and single
isBenzene(m) ==
    /\ Len(m.atoms) = 6
    /\ Len(m.bonds) = 6
    /\ \A i \in 1 .. 6 :
        /\ m.atoms[i].atNum = 6
        /\ m.atoms[i].charge = 0
        /\ bondJoins(m.bonds[i], i, (i % 6) + 1)
        /\ m.bonds[i].bType = (IF i % 2 = 1 THEN BondTypeDouble ELSE BondTypeSingle)

\* C21: for benzene, whose ring was recorded with addAtom and complete and
\* added to one ring system, the system's pi-electron count is 6,
\* determineAromaticity marks the system aromatic, every ring atom has
\* isInAroRing set and every ring bond has isAro set.
C21_BenzeneSystemAromatic ==
    (isBenzene(mol) /\ allDetermined) =>
        /\ RingSystem_piElectronCount(mol, mol.ringSystems[1]) = [n |-> 6, ok |-> TRUE]
        /\ mol.ringSystems[1].isAro
        /\ \A i \in DOMAIN mol.atoms : mol.atoms[i].isInAroRing
        /\ \A i \in DOMAIN mol.bonds : mol.bonds[i].isAro

\* C21, the state the claim is about: benzene's ring is complete, it is the
\* one ring of the one system, and determineAromaticity has run.
C21_BenzeneDetermined ==
    /\ isBenzene(mol)
    /\ allDetermined
    /\ mol.rings[1].isComplete
    /\ Len(mol.rings[1].atoms) = 6
    /\ mol.ringSystems[1].rings = <<1>>

\* the ring, or its ring system, is marked aromatic
foundAromatic(m, r) ==
    \/ r.isAro
    \/ \E s \in systemsOf(m, r.id) : m.ringSystems[s].isAro

hasHeteroAtom(m, r) ==
    \E i \in DOMAIN r.atoms : atomWithIid(m, r.atoms[i]).atNum # 6

\* C22: after aromaticity determination, every ring with a non-carbon atom
\* that was found aromatic, by itself or through its ring system, has
\* isHetAro set, and isInHeteroAromaticRing is true for each of its atoms.
C22_HeteroAromaticFlagged ==
    allDetermined =>
        \A j \in DOMAIN mol.rings :
            (foundAromatic(mol, mol.rings[j]) /\ hasHeteroAtom(mol, mol.rings[j])) =>
                /\ mol.rings[j].isHetAro
                /\ \A i \in DOMAIN mol.rings[j].atoms :
                        Atom_isInHeteroAromaticRing(mol,
                            atomWithIid(mol, mol.rings[j].atoms[i]))

\* C22, the state the claim is about: pyridine's ring was found aromatic.
C22_PyridineAromatic ==
    /\ allDetermined
    /\ Len(mol.atoms) = 6
    /\ mol.atoms[1].atNum = 7
    /\ foundAromatic(mol, mol.rings[1])
    /\ mol.rings[1].isHetAro

(***************************************************************************)
(* Properties of the atom classifiers (SpecClassify).                      *)
(***************************************************************************)
\* the key of the pi-electron table
piKey(a) == 100 * a.doubleBondCount + 10 * a.singleBondCount + a.charge

doubleBondsOf(m, a) == {bid \in a.bonds : isDouble(bondWithId(m, bid))}

partnerOf(m, a, bid) == atomWithIid(m, otherAtomIid(bondWithId(m, bid), a.iId))

\* the table of pi-electron contributions, by element and key
piTable(m, a) ==
    LET key == piKey(a)
        dbs == doubleBondsOf(m, a)
    IN  CASE a.atNum = 6 /\ key = 19 -> 2
          [] a.atNum = 6 /\ key = 110 -> 1
          [] a.atNum = 6 /\ key = 120 ->
                (IF \E bid \in dbs : Bond_isCyclic(bondWithId(m, bid)) THEN 1 ELSE 0)
          [] a.atNum = 7 /\ key \in {20, 30} -> 2
          [] a.atNum = 7 /\ key \in {110, 121} -> 1
          [] a.atNum \in {8, 16} /\ key = 20 -> 2
          [] a.atNum \in {8, 16} /\ key = 111 -> 1
          [] a.atNum = 16 /\ key = 120 ->
                (IF \E bid \in dbs : /\ partnerOf(m, a, bid).atNum = 8
                                     /\ ~Atom_isCyclic(partnerOf(m, a, bid))
                 THEN 2 ELSE 0)
          [] OTHER -> 0

\* sulphur with key 220 and more than one exocyclic double bond
poisons(m, a) ==
    /\ a.atNum = 16
    /\ piKey(a) = 220
    /\ Cardinality({bid \in doubleBondsOf(m, a) : ~Bond_isCyclic(bondWithId(m, bid))}) > 1

\* C23: piElectronCount answers the value of the table for the atom's
\* element and key, and its flag is false exactly for a sulphur with key 220
\* and more than one exocyclic double bond.
C23_PiElectronTable ==
    lastOp.op = "piElectronCount" =>
        /\ lastOp.n = piTable(mol, atomWithIid(mol, lastOp.x))
        /\ lastOp.ok <=> ~poisons(mol, atomWithIid(mol, lastOp.x))

\* C23, the state the claim is about: piElectronCount was asked of a sulphur
\* with key 120 whose double bond goes to an oxygen.
C23_AskedSulphurWithOxygen ==
    /\ lastOp.op = "piElectronCount"
    /\ mol.atoms[1].atNum = 16
    /\ piKey(mol.atoms[1]) = 120
    /\ \E bid \in doubleBondsOf(mol, mol.atoms[1]) :
            partnerOf(mol, mol.atoms[1], bid).atNum = 8
    /\ lastOp.n = 2

tripleBondsOf(m, a) == {bid \in a.bonds : isTriple(bondWithId(m, bid))}

\* the bonds of the set whose other end is not a carbon
toHetero(m, a, bids) == {bid \in bids : partnerOf(m, a, bid).atNum # 6}

UnsaturationStates ==
    {UnsaturationNone, UnsaturationCharged, UnsaturationDoubleBondC,
     UnsaturationDoubleBondW, UnsaturationDoubleBondCC, UnsaturationDoubleBondCW,
     UnsaturationDoubleBondWW, UnsaturationTripleBondC, UnsaturationTripleBondW}

\* C24: after determineUnsaturation the atom is Charged when its charge is
\* not zero; otherwise None when all its bonds are single, TripleBondC or
\* TripleBondW by the partner when it has exactly one triple bond, and the
\* DoubleBond state of its partners when it has one or two double bonds and
\* no triple bond; and a call that succeeds on a neutral atom has assigned a
\* state.
C24_UnsaturationAssigned ==
    lastOp.op = "determineUnsaturation" =>
        LET a == atomWithIid(mol, lastOp.x)
            dbs == doubleBondsOf(mol, a)
            tbs == tripleBondsOf(mol, a)
            ndb == Cardinality(dbs)
            nhdb == Cardinality(toHetero(mol, a, dbs))
        IN  /\ a.charge # 0 => a.unsaturation = UnsaturationCharged
            /\ (a.charge = 0 /\ dbs = {} /\ tbs = {})
                    => a.unsaturation = UnsaturationNone
            /\ (a.charge = 0 /\ Cardinality(tbs) = 1)
                    => a.unsaturation = (IF toHetero(mol, a, tbs) = {}
                                         THEN UnsaturationTripleBondC
                                         ELSE UnsaturationTripleBondW)
            /\ (a.charge = 0 /\ tbs = {} /\ ndb \in {1, 2})
                    => a.unsaturation =
                        (CASE ndb = 1 /\ nhdb = 0 -> UnsaturationDoubleBondC
                           [] ndb = 1 /\ nhdb = 1 -> UnsaturationDoubleBondW
                           [] ndb = 2 /\ nhdb = 0 -> UnsaturationDoubleBondCC
                           [] ndb = 2 /\ nhdb = 1 -> UnsaturationDoubleBondCW
                           [] OTHER -> UnsaturationDoubleBondWW)
            /\ (a.charge = 0 /\ ~lastOp.err)
                    => lastOp.assigned /\ a.unsaturation \in UnsaturationStates

\* C24, the state the claim is about: determineUnsaturation has classified a
\* neutral atom with two double bonds, one of them to an oxygen.
C24_ClassifiedTwoDoubleBonds ==
    /\ lastOp.op = "determineUnsaturation"
    /\ ~lastOp.err
    /\ lastOp.assigned
    /\ mol.atoms[1].charge = 0
    /\ mol.atoms[1].unsaturation = UnsaturationDoubleBondCW

\* C25: isCarbonylC is true if and only if the atom is a carbon with exactly
\* one double bond whose partner is an oxygen, whatever the atom's charge.
C25_CarbonylIffDoubleBondToOxygen ==
    lastOp.op = "isCarbonylC" =>
        LET a == atomWithIid(mol, lastOp.x)
            dbs == doubleBondsOf(mol, a)
        IN  lastOp.ok <=>
                /\ a.atNum = 6
                /\ Cardinality(dbs) = 1
                /\ \A bid \in dbs : partnerOf(mol, a, bid).atNum = 8

\* C25, the state the claim is about: isCarbonylC was asked of a charged
\* carbon with one double bond, to an oxygen.
C25_AskedChargedCarbonyl ==
    /\ lastOp.op = "isCarbonylC"
    /\ mol.atoms[1].atNum = 6
    /\ mol.atoms[1].charge # 0
    /\ Cardinality(doubleBondsOf(mol, mol.atoms[1])) = 1
    /\ \A bid \in doubleBondsOf(mol, mol.atoms[1]) :
            partnerOf(mol, mol.atoms[1], bid).atNum = 8

(***************************************************************************)
(* Properties of the ring queries (SpecQuery).                             *)
(***************************************************************************)
\* the rings with the id in the list or set that are of the least size
smallestAmong(m, rids) ==
    {rid \in rids : \A other \in rids : size(ringWithId(m, rid)) <= size(ringWithId(m, other))}

\* C27: smallestRing on an atom or a bond answers the id of the one ring of
\* least size among its rings, and an error when it is in no ring or when
\* several of its rings have the least size.
C27_SmallestRingUnique ==
    LET rids == IF lastOp.op = "Atom.smallestRing"
                THEN atomWithIid(mol, lastOp.x).rings
                ELSE Range(bondWithId(mol, lastOp.x).rings)
    IN  lastOp.op \in {"Atom.smallestRing", "Bond.smallestRing"} =>
            IF Cardinality(smallestAmong(mol, rids)) = 1
            THEN ~lastOp.err /\ lastOp.rid \in smallestAmong(mol, rids)
            ELSE lastOp.err

\* C27, the state the claim is about: smallestRing was asked of a bond that
\* is in two rings of different sizes.
C27_AskedSharedBond ==
    /\ lastOp.op = "Bond.smallestRing"
    /\ Len(bondWithId(mol, lastOp.x).rings) = 2
    /\ Cardinality(smallestAmong(mol, Range(bondWithId(mol, lastOp.x).rings))) = 1

\* the 0-based position of an atom of the ring in the atom sequence
positionOf(r, aid) == (CHOOSE i \in DOMAIN r.atoms : r.atoms[i] = aid) - 1

\* C30: for a completed ring of size n and two of its atoms at positions i
\* and j of the atom sequence, distanceBetweenAtoms answers
\* min(|i - j|, n - |i - j|) and no error; it answers an error exactly when
\* one of the two atoms is not in the atom sequence.
C30_DistanceInRing ==
    lastOp.op = "distanceBetweenAtoms" =>
        LET r == ringWithId(mol, lastOp.rid)
            i == positionOf(r, lastOp.x)
            j == positionOf(r, lastOp.y)
            d == IF i < j THEN j - i ELSE i - j
        IN  IF lastOp.x \in Range(r.atoms) /\ lastOp.y \in Range(r.atoms)
            THEN /\ ~lastOp.err
                 /\ lastOp.n = (IF d < size(r) - d THEN d ELSE size(r) - d)
            ELSE lastOp.err

\* C30, the state the claim is about: the distance was asked between the
\* first atom of a completed ring's sequence and another of its atoms.
C30_AskedFromFirstAtom ==
    /\ lastOp.op = "distanceBetweenAtoms"
    /\ ringWithId(mol, lastOp.rid).isComplete
    /\ lastOp.x = ringWithId(mol, lastOp.rid).atoms[1]
    /\ lastOp.y \in Range(ringWithId(mol, lastOp.rid).atoms)
    /\ lastOp.y # lastOp.x

(***************************************************************************)
(* Properties of the atom's bond bookkeeping (SpecAtom).                   *)
(***************************************************************************)
\* number of positions of s that hold x
occurrences(s, x) == Cardinality({i \in DOMAIN s : s[i] = x})

\* C2: after any addBond and removeBond calls, the three bond counters add
\* up to the number of bond ids in the atom's bond set.
C2_CountersMatchBondSet ==
    atom.singleBondCount + atom.doubleBondCount + atom.tripleBondCount
        = Cardinality(atom.bonds)

\* C2, the state the claim is about: removeBond was given a bond that is not
\* in the atom's bond set.
C2_RemovedAbsentBond ==
    /\ lastOp.op = "removeBond"
    /\ nops = 1

\* C3: after any addBond and removeBond calls, the expanded neighbour list
\* is as long as single + 2*double + 3*triple, and each neighbour occurs in
\* it as many times as the order of the bond to it.
C3_NeighbourListMatches ==
    /\ Len(atom.nbrs) =
            atom.singleBondCount + 2 * atom.doubleBondCount
                + 3 * atom.tripleBondCount
    /\ \A bid \in atom.bonds :
            occurrences(atom.nbrs, otherAtomIid(bondWithId(mol, bid), atom.iId))
                = bondWithId(mol, bid).bType
    /\ \A i \in DOMAIN atom.nbrs :
            \E bid \in atom.bonds :
                otherAtomIid(bondWithId(mol, bid), atom.iId) = atom.nbrs[i]

\* C3, the state the claim is about: a bond was removed after a bond was added.
C3_RemovedAfterAdd ==
    /\ lastOp.op = "removeBond"
    /\ nops >= 2

(***************************************************************************)
(* Properties of the builders (SpecBuilder).                               *)
(***************************************************************************)
\* C4: AtomBuilder.New answers an error and creates no atom whenever the
\* symbol is not in the element table or the input id, as the integer the
\* caller passed, is not the molecule's next expected input id; it succeeds
\* only when the input id is exactly the next expected one.
C4_NewRejectsBadInput ==
    [][ lastOp'.op = "AtomBuilder.New" =>
          /\ (lastOp'.sym \notin DOMAIN PeriodicTable \/ lastOp'.x # mol.nextAtomIid)
                => (lastOp'.err /\ ab' = ab)
          /\ ~lastOp'.err => lastOp'.x = mol.nextAtomIid
      ]_vars

\* C4, the state the claim is about: New was given an input id outside
\* 1..65535.
C4_NewWithWideId ==
    /\ lastOp.op = "AtomBuilder.New"
    /\ lastOp.x \notin 1 .. MaxUint16

\* the atom of the molecule with the given input id is a hydrogen
isHydrogen(m, aiid) ==
    m.atoms[atomIndexWithIid(m, uint16(aiid))].atNum = 1

\* C5: when BondBuilder.Atoms is given the ids of two atoms present in the
\* molecule, at least one of them a hydrogen, the bond is discarded, the error is not
\* fatal (the builder is answered with it), and exactly one atom's hCount
\* goes up, by exactly one, that atom being a non-hydrogen endpoint.
C5_HydrogenBondDropped ==
    [][ ( /\ lastOp'.op = "BondBuilder.Atoms"
          /\ atomIndexWithIid(mol, uint16(lastOp'.x)) # 0
          /\ atomIndexWithIid(mol, uint16(lastOp'.y)) # 0
          /\ lastOp'.x # lastOp'.y
          /\ (isHydrogen(mol, lastOp'.x) \/ isHydrogen(mol, lastOp'.y)) )
        => /\ bb' = Nil
           /\ lastOp'.err
           /\ ~lastOp'.fatal
           /\ Len(mol'.atoms) = Len(mol.atoms)
           /\ \E i \in DOMAIN mol.atoms :
                /\ i \in {atomIndexWithIid(mol, uint16(lastOp'.x)),
                           atomIndexWithIid(mol, uint16(lastOp'.y))}
                /\ mol.atoms[i].atNum # 1
                /\ mol'.atoms[i] = [mol.atoms[i] EXCEPT !.hCount = @ + 1]
                /\ \A j \in DOMAIN mol.atoms : j # i => mol'.atoms[j] = mol.atoms[j]
      ]_vars

\* C5, the state the claim is about: Atoms dropped a bond to a hydrogen.
C5_BondDropped ==
    /\ lastOp.op = "BondBuilder.Atoms"
    /\ lastOp.x # lastOp.y
    /\ lastOp.err
    /\ ~lastOp.fatal

\* C6: BondBuilder.BondType succeeds and stores the order if and only if the
\* order is single, double or triple; for every other value it answers an
\* error and leaves the bond as it was.
C6_OnlySingleDoubleTriple ==
    [][ lastOp'.op = "BondBuilder.BondType" =>
          IF lastOp'.x \in {BondTypeSingle, BondTypeDouble, BondTypeTriple}
          THEN ~lastOp'.err /\ bb'.bType = lastOp'.x
          ELSE lastOp'.err /\ bb' = bb
      ]_vars

\* C6, the state the claim is about: BondType was given a value above
\* alternating.
C6_OrderAboveAltern ==
    /\ lastOp.op = "BondBuilder.BondType"
    /\ lastOp.x > BondTypeAltern

\* the charge the claim gives for a charge code
claimedCharge(ch) ==
    CASE ch = 1 -> 3 [] ch = 2 -> 2 [] ch = 3 -> 1
      [] ch = 5 -> -1 [] ch = 6 -> -2 [] ch = 7 -> -3
      [] OTHER -> 0

\* C7: after AtomBuilder.Charge(code), whatever Charge calls came before, the
\* charge is +3, +2, +1 for 1, 2, 3, is -1, -2, -3 for 5, 6, 7, and 0 for
\* every other code; code 4 sets the radical to doublet and no other code
\* changes the radical.
C7_ChargeEncoding ==
    [][ lastOp'.op = "AtomBuilder.Charge" =>
          /\ ab'.charge = claimedCharge(lastOp'.x)
          /\ lastOp'.x = 4 => ab'.radical = RadicalDoublet
          /\ lastOp'.x # 4 => ab'.radical = ab.radical
      ]_vars

\* C7, the state the claim is about: Charge(4) on an atom that an earlier
\* Charge call left charged.
C7_RadicalAfterCharge ==
    /\ lastOp.op = "AtomBuilder.Charge"
    /\ lastOp.x = 4
    /\ ab.charge # 0

\* C26: no atom record has atomic number 1: neither the atom in the atom
\* builder nor any atom the molecule holds is a hydrogen, so a bond's
\* endpoints never resolve to one.
C26_NoHydrogenRecords ==
    /\ ab # Nil => ab.atNum # 1
    /\ \A i \in DOMAIN mol.atoms : mol.atoms[i].atNum # 1

\* C26, the state the claim is about: New was asked for a hydrogen with the
\* expected input id and answered no error.
C26_NewHydrogen ==
    /\ lastOp.op = "AtomBuilder.New"
    /\ lastOp.sym = "H"
    /\ ~lastOp.err

(***************************************************************************)
(* Properties of the molecule id counter (SpecMolId).                      *)
(***************************************************************************)
\* C8: under every interleaving of molecule.New() calls no two molecules get
\* the same id, nextId is read and written only by the goroutine that holds
\* the mutex, and the k-th caller to acquire the mutex gets id k.
C8_UniqueIdsInLockOrder ==
    /\ \A k \in DOMAIN issued : issued[k].id # 0 => issued[k].id = k
    /\ \A j, k \in DOMAIN issued :
            (issued[j].id # 0 /\ issued[j].id = issued[k].id) => j = k
    /\ \A p \in Procs :
            procs[p].pc \in {"load", "store", "return"} => nextMolId.mu = p

\* C8, the state the claim is about: both goroutines have had ids, and a
\* goroutine got its second id after the other got its first.
C8_InterleavedIds ==
    /\ Len(issued) >= 3
    /\ \A k \in 1 .. 3 : issued[k].id # 0
    /\ issued[1].proc # issued[2].proc

====
